---- MODULE Spec2Model ----
(***************************************************************************)
(* A model of the DingTalk approval / personnel event listener:            *)
(*   - UnifiedEventHandler (src/src/stream_client.py): event dedup, the    *)
(*     approval and personnel event paths, the action dispatcher and the   *)
(*     retry loop of record actions;                                       *)
(*   - Application (src/main.py): configuration reload and stream-client   *)
(*     rebuild;                                                            *)
(*   - ConfigWatcher (src/src/config_watcher.py): file watching, the       *)
(*     serialized background reload task, stop().                          *)
(* Every await of the Python code is a point where one action ends and     *)
(* another begins; the code between two awaits is one atomic step, as it   *)
(* is under asyncio's single-threaded cooperative scheduling.              *)
(***************************************************************************)
EXTENDS Integers, Sequences, FiniteSets, TLC

(***************************************************************************)
(* Bounds of the model                                                     *)
(***************************************************************************)
MaxActions == 2
MaxRetryTimes == 2
MaxTicks == 2
MaxBursts == 1
BurstSize == 1000
NumTasks == 2
MaxModifications == 3
MaxCacheOps == 4
MaxCacheTime == 3
MaxComponents == 2
MaxSegments == 3
NumCalls == 2

(***************************************************************************)
(* Program constants                                                       *)
(***************************************************************************)
EVENT_DEDUP_TTL == 300
SWEEP_THRESHOLD == 1000

STATUS_OK == "OK"
STATUS_SYSTEM_EXCEPTION == "SYSTEM_EXCEPTION"

\* Python's None, and a key that is missing from a dict
NoValue == "None"

VARIABLES
    now,               \* time.time(), in seconds
    handler_config,    \* UnifiedEventHandler.config
    processed_events,  \* UnifiedEventHandler._processed_events
    tasks,             \* the process() invocations of the handler, in order of delivery
    last_mark,         \* history: when _mark_event_processed last ran for a key
    budget,            \* the events, clock ticks and bursts the model still allows
    app,               \* the Application object and the position of start() / stop()
    watcher,           \* the ConfigWatcher object and the asyncio tasks it creates
    file,              \* the configuration file: its content and its st_mtime
    hist,              \* history: reload callback invocations and detections
    cache,             \* a CacheManager: its TTLCache and its counters
    monotonic,         \* time.monotonic(), in seconds
    cache_hist,        \* history: the calls of the cache and what was written
    form,              \* a call of a function on form data: its inputs and its result
    client,            \* the SpreadsheetClient: its caches and the requests it sends
    children           \* the child processes left running by the actions that started them

handler_vars == <<now, handler_config, processed_events, tasks, last_mark, budget>>

reload_vars == <<app, watcher, file, hist>>

cache_vars == <<cache, monotonic, cache_hist>>

client_vars == <<form, client, children>>

vars == <<now, handler_config, processed_events, tasks, last_mark, budget,
          app, watcher, file, hist, cache, monotonic, cache_hist,
          form, client, children>>

Tasks == 1..NumTasks

(***************************************************************************)
(* Configuration (src/src/config.py)                                       *)
(***************************************************************************)
\* class Action: the fields pydantic keeps (type, base_id, sheet_id, find_by,
\* updates); base_id and sheet_id only select the target table.  find_by is
\* whether a FindBy is configured, updates whether the list is non-empty.
Action(type, find_by, updates) ==
    [type |-> type, find_by |-> find_by, updates |-> updates]

Approval(template_id, enabled, actions) ==
    [template_id |-> template_id, enabled |-> enabled, actions |-> actions]

HrmEvent(change_type, enabled, actions) ==
    [change_type |-> change_type, enabled |-> enabled, actions |-> actions]

Execution(timeout, retry_times, retry_interval) ==
    [timeout |-> timeout, retry_times |-> retry_times, retry_interval |-> retry_interval]

Config(approvals, hrm_events, execution) ==
    [approvals |-> approvals, hrm_events |-> hrm_events, execution |-> execution]

\* the largest index of a sequence element satisfying a test (a dict
\* comprehension keeps the last value written for a key)
LastIndex(S) == CHOOSE i \in S : \A j \in S : j <= i

\* a faulty variant: the disabled rules are kept too
approvals_map_with_disabled(cfg) ==
    LET idx(id) == {i \in 1..Len(cfg.approvals) : cfg.approvals[i].template_id = id}
        ids == {cfg.approvals[i].template_id : i \in 1..Len(cfg.approvals)}
    IN [id \in ids |-> cfg.approvals[LastIndex(idx(id))]]

\* {approval.template_id: approval for approval in config.approvals if approval.enabled}
approvals_map(cfg) ==
    LET idx(id) == {i \in 1..Len(cfg.approvals) :
                       cfg.approvals[i].enabled /\ cfg.approvals[i].template_id = id}
        ids == {cfg.approvals[i].template_id : i \in {j \in 1..Len(cfg.approvals) : cfg.approvals[j].enabled}}
    IN [id \in ids |-> cfg.approvals[LastIndex(idx(id))]]

\* {hrm_event.change_type: hrm_event for hrm_event in config.hrm_events if hrm_event.enabled}
hrm_events_map(cfg) ==
    LET idx(ct) == {i \in 1..Len(cfg.hrm_events) :
                       cfg.hrm_events[i].enabled /\ cfg.hrm_events[i].change_type = ct}
        cts == {cfg.hrm_events[i].change_type : i \in {j \in 1..Len(cfg.hrm_events) : cfg.hrm_events[j].enabled}}
    IN [ct \in cts |-> cfg.hrm_events[LastIndex(idx(ct))]]

(***************************************************************************)
(* Event dedup (stream_client.py:60-89)                                    *)
(*                                                                         *)
(* _processed_events is a dict {event_key: timestamp}.  The model keeps    *)
(* the entries of the event keys it follows one by one in .tracked, and    *)
(* the entries of all other keys (events that are delivered once and not   *)
(* again) grouped by timestamp in .bulk: bulk[ts] is how many of them      *)
(* carry timestamp ts.                                                     *)
(***************************************************************************)
EmptyFn == [x \in {} |-> 0]

EmptyDict == [tracked |-> EmptyFn, bulk |-> EmptyFn]

RECURSIVE SumOver(_, _)
SumOver(f, S) ==
    IF S = {} THEN 0
    ELSE LET x == CHOOSE y \in S : TRUE IN f[x] + SumOver(f, S \ {x})

\* len(self._processed_events)
DictLen(pe) == Cardinality(DOMAIN pe.tracked) + SumOver(pe.bulk, DOMAIN pe.bulk)

Restrict(f, S) == [x \in S |-> f[x]]

\* a faulty variant: the age test of the window reversed
_is_event_processed_reversed(pe, event_key, t) ==
    /\ event_key \in DOMAIN pe.tracked
    /\ t - pe.tracked[event_key] > EVENT_DEDUP_TTL

\* a faulty variant: an entry exactly EVENT_DEDUP_TTL old still counts as processed
_is_event_processed_inclusive(pe, event_key, t) ==
    /\ event_key \in DOMAIN pe.tracked
    /\ t - pe.tracked[event_key] <= EVENT_DEDUP_TTL

\* the boolean _is_event_processed returns
_is_event_processed(pe, event_key, t) ==
    /\ event_key \in DOMAIN pe.tracked
    /\ t - pe.tracked[event_key] < EVENT_DEDUP_TTL

\* a faulty variant: a read that finds the entry inside its window stamps it
\* with the time of the read
_is_event_processed_dict_refreshes(pe, event_key, t) ==
    IF event_key \in DOMAIN pe.tracked
    THEN IF t - pe.tracked[event_key] < EVENT_DEDUP_TTL
         THEN [pe EXCEPT !.tracked[event_key] = t]
         ELSE [pe EXCEPT !.tracked = Restrict(@, DOMAIN @ \ {event_key})]
    ELSE pe

\* the dict _is_event_processed leaves: an entry found expired is deleted
_is_event_processed_dict(pe, event_key, t) ==
    IF event_key \in DOMAIN pe.tracked /\ ~(t - pe.tracked[event_key] < EVENT_DEDUP_TTL)
    THEN [pe EXCEPT !.tracked = Restrict(@, DOMAIN @ \ {event_key})]
    ELSE pe

\* a faulty variant: the sweep keeps only the entries marked at the time it runs
_clean_expired_events_all(pe, t) ==
    [tracked |-> Restrict(pe.tracked, {k \in DOMAIN pe.tracked : pe.tracked[k] = t}),
     bulk |-> Restrict(pe.bulk, {ts \in DOMAIN pe.bulk : ts = t})]

_clean_expired_events(pe, t) ==
    [tracked |-> Restrict(pe.tracked,
                    {k \in DOMAIN pe.tracked : ~(t - pe.tracked[k] > EVENT_DEDUP_TTL)}),
     bulk |-> Restrict(pe.bulk,
                    {ts \in DOMAIN pe.bulk : ~(t - ts > EVENT_DEDUP_TTL)})]

_mark_event_processed(pe, event_key, t) ==
    LET set == [pe EXCEPT !.tracked =
                   [k \in DOMAIN @ \cup {event_key} |-> IF k = event_key THEN t ELSE @[k]]]
    IN IF DictLen(set) > SWEEP_THRESHOLD THEN _clean_expired_events(set, t) ELSE set

\* n events with n distinct keys the model does not follow, each marked at t:
\* n times _mark_event_processed.  The sweep runs at the first of them that
\* finds more than SWEEP_THRESHOLD entries, which happens iff the last one does;
\* the entries added at t are never expired at t.
mark_untracked(pe, n, t) ==
    LET set == [pe EXCEPT !.bulk =
                   [ts \in DOMAIN @ \cup {t} |-> IF ts \in DOMAIN @
                                                  THEN (IF ts = t THEN @[ts] + n ELSE @[ts])
                                                  ELSE n]]
    IN IF DictLen(set) > SWEEP_THRESHOLD THEN _clean_expired_events(set, t) ELSE set

(***************************************************************************)
(* One process() invocation (stream_client.py:91-314)                      *)
(*                                                                         *)
(* pc: "idle" (slot free), "detail" (awaiting get_process_instance),       *)
(* "userinfo" (awaiting get_user_info), "actions" (inside                  *)
(* _execute_actions), "done" (process() has returned .ack).                *)
(* astate[k] is where action k of the rule stands: "todo", an await        *)
(* ("find", "update", "insert", "sleep", "http", "shell", "script"),       *)
(* "raise" (an exception is propagating out of it) or "done".              *)
(* attempt[k] is the retry loop's variable.  The other fields are history: *)
(* gate (how the dedup gate classified the event), dup_expected (the key   *)
(* was marked less than EVENT_DEDUP_TTL before this delivery), issued (the *)
(* downstream calls begun), dispatched[k] (times action k was dispatched), *)
(* attempts[k], sleeps[k], first_ok[k] (attempts made, retry sleeps begun, *)
(* the first attempt that succeeded, 0 if none) and result[k].             *)
(***************************************************************************)
\* no event delivered yet
NoEvent ==
    [event_type |-> NoValue, data |-> NoValue, result |-> NoValue,
     processCode |-> NoValue, processInstanceId |-> NoValue,
     changeType |-> NoValue, staffId |-> NoValue, search_value |-> NoValue]

IdleTask ==
    [pc |-> "idle", key |-> NoValue, search_value |-> NoValue, gate |-> "none",
     dup_expected |-> FALSE, enrich |-> NoValue, issued |-> {}, actions |-> <<>>,
     astate |-> <<>>, attempt |-> <<>>, dispatched |-> <<>>, attempts |-> <<>>,
     sleeps |-> <<>>, first_ok |-> <<>>, result |-> <<>>, ack |-> NoValue,
     reloads |-> 0, settled |-> TRUE, event |-> NoEvent, error |-> NoValue]

\* return AckMessage.STATUS_OK, "OK"
Return(tk, status) == [tk EXCEPT !.pc = "done", !.ack = status]

\* a faulty variant: the exception leaves process
raise_to_source(tk, error) == [tk EXCEPT !.pc = "raised", !.error = error]

\* except Exception as e: logger.exception(...);
\* return AckMessage.STATUS_SYSTEM_EXCEPTION, str(e)
except_Exception(tk, error) ==
    Return([tk EXCEPT !.error = error], STATUS_SYSTEM_EXCEPTION)

HasAttr(action, name) == name \in DOMAIN action

\* ---- _update_spreadsheet (stream_client.py:373-445) ----

\* one pass of the body of `for attempt in range(max_retries + 1)` up to its
\* await: process_update_actions (spreadsheet_client.py:659-666) returns False
\* without a call when the form has no search value, else awaits the find;
\* process_add_actions (spreadsheet_client.py:618-624) awaits the insert
\* a faulty variant: after a failed attempt a find-by action inserts instead
begin_attempt_upsert(tk, k) ==
    LET counted == [tk EXCEPT !.attempts[k] = @ + 1]
    IN IF tk.actions[k].find_by /\ tk.attempt[k] = 0
       THEN IF tk.search_value = NoValue
            THEN [counted EXCEPT !.astate[k] = "returned_false"]
            ELSE [counted EXCEPT !.astate[k] = "find", !.issued = @ \cup {"find"}]
       ELSE [counted EXCEPT !.astate[k] = "insert", !.issued = @ \cup {"insert"}]

begin_attempt(tk, k) ==
    LET a == tk.actions[k]
        counted == [tk EXCEPT !.attempts[k] = @ + 1]
    IN IF a.find_by
       THEN IF tk.search_value = NoValue
            THEN [counted EXCEPT !.astate[k] = "returned_false"]
            ELSE [counted EXCEPT !.astate[k] = "find", !.issued = @ \cup {"find"}]
       ELSE [counted EXCEPT !.astate[k] = "insert", !.issued = @ \cup {"insert"}]

\* lines 433-438: the attempt returned a false result
attempt_failed(tk, k, cfg) ==
    IF tk.attempt[k] < cfg.execution.retry_times
    THEN [tk EXCEPT !.astate[k] = "sleep", !.sleeps[k] = @ + 1]
    ELSE [tk EXCEPT !.astate[k] = "done", !.result[k] = "exhausted"]

\* a faulty variant: an attempt that raises is not retried
attempt_raised_no_retry(tk, k, cfg) ==
    [tk EXCEPT !.astate[k] = "raise", !.result[k] = "raised"]

\* lines 440-445: the attempt raised
attempt_raised(tk, k, cfg) ==
    IF tk.attempt[k] < cfg.execution.retry_times
    THEN [tk EXCEPT !.astate[k] = "sleep", !.sleeps[k] = @ + 1]
    ELSE [tk EXCEPT !.astate[k] = "raise", !.result[k] = "raised"]

\* lines 416-418, 429-431: success returns from _update_spreadsheet
attempt_succeeded(tk, k) ==
    [tk EXCEPT !.astate[k] = "done", !.result[k] = "ok",
               !.first_ok[k] = IF @ = 0 THEN tk.attempts[k] ELSE @]

\* the retry loop from the start of one attempt to the next await
run_attempt(tk, k, cfg) ==
    LET b == begin_attempt(tk, k)
    IN IF b.astate[k] = "returned_false"
       THEN attempt_failed(b, k, cfg)
       ELSE b

_update_spreadsheet(tk, k, cfg) ==
    IF ~tk.actions[k].updates
    THEN [tk EXCEPT !.astate[k] = "done", !.result[k] = "no_updates"]
    ELSE IF cfg.execution.retry_times + 1 <= 0
    THEN [tk EXCEPT !.astate[k] = "done", !.result[k] = "no_attempt"]
    ELSE run_attempt([tk EXCEPT !.attempt[k] = 0], k, cfg)

\* asyncio.sleep(retry_interval) is over: the next iteration of
\* `for attempt in range(max_retries + 1)`, if there is one
after_sleep(tk, k, cfg) ==
    IF tk.attempt[k] + 1 < cfg.execution.retry_times + 1
    THEN run_attempt([tk EXCEPT !.attempt[k] = @ + 1], k, cfg)
    ELSE [tk EXCEPT !.astate[k] = "done", !.result[k] = "exhausted"]

\* ---- _send_webhook, _execute_shell, _execute_python (447-630) ----
\* Each first reads a field of the action (action.url, action.command,
\* action.script): AttributeError when the Action object has no such field.
_send_webhook(tk, k) ==
    IF ~HasAttr(tk.actions[k], "url")
    THEN [tk EXCEPT !.astate[k] = "raise", !.result[k] = "raised"]
    ELSE IF tk.actions[k].url = NoValue
    THEN [tk EXCEPT !.astate[k] = "done", !.result[k] = "no_url"]
    ELSE [tk EXCEPT !.astate[k] = "http", !.issued = @ \cup {"http"}]

_execute_shell(tk, k) ==
    IF ~HasAttr(tk.actions[k], "command")
    THEN [tk EXCEPT !.astate[k] = "raise", !.result[k] = "raised"]
    ELSE IF tk.actions[k].command = NoValue
    THEN [tk EXCEPT !.astate[k] = "done", !.result[k] = "no_command"]
    ELSE [tk EXCEPT !.astate[k] = "shell", !.issued = @ \cup {"shell"}]

_execute_python(tk, k) ==
    IF ~HasAttr(tk.actions[k], "script")
    THEN [tk EXCEPT !.astate[k] = "raise", !.result[k] = "raised"]
    ELSE IF tk.actions[k].script = NoValue
    THEN [tk EXCEPT !.astate[k] = "done", !.result[k] = "no_script"]
    ELSE [tk EXCEPT !.astate[k] = "script", !.issued = @ \cup {"script"}]

\* ---- _execute_actions (stream_client.py:347-371) ----

\* lines 358-367: the dispatch on action.type
dispatch(tk, k, cfg) ==
    LET a == tk.actions[k]
        d == [tk EXCEPT !.dispatched[k] = @ + 1]
    IN CASE a.type = "update_spreadsheet" -> _update_spreadsheet(d, k, cfg)
         [] a.type = "webhook" -> _send_webhook(d, k)
         [] a.type = "shell" -> _execute_shell(d, k)
         [] a.type = "python" -> _execute_python(d, k)
         [] OTHER -> [d EXCEPT !.astate[k] = "done", !.result[k] = "unknown_type"]

\* a faulty variant: an exception of an action leaves the loop and reaches process()
except_in_loop_propagates(tk, k) ==
    IF tk.astate[k] = "raise"
    THEN Return([tk EXCEPT !.astate[k] = "done"], STATUS_SYSTEM_EXCEPTION)
    ELSE tk

\* lines 369-371: except Exception: log, and go on with the next action
except_in_loop(tk, k) ==
    IF tk.astate[k] = "raise" THEN [tk EXCEPT !.astate[k] = "done"] ELSE tk

\* a faulty variant: the actions are started together instead of one after the other
RECURSIVE _execute_actions_together(_, _, _)
_execute_actions_together(tk, k, cfg) ==
    IF k > Len(tk.actions)
    THEN tk
    ELSE _execute_actions_together(except_in_loop(dispatch(tk, k, cfg), k), k + 1, cfg)

\* the for loop from action k on, up to the next await or to the return of
\* process() (lines 232-234, 308-310)
RECURSIVE _execute_actions(_, _, _)
_execute_actions(tk, k, cfg) ==
    IF k > Len(tk.actions)
    THEN Return(tk, STATUS_OK)
    ELSE LET c == except_in_loop(dispatch(tk, k, cfg), k)
         IN IF c.pc = "done" THEN c
            ELSE IF c.astate[k] = "done" THEN _execute_actions(c, k + 1, cfg)
            ELSE c

\* action k came back from an await with state tk: the rest of the loop
resume_actions(tk, k, cfg) ==
    LET c == except_in_loop(tk, k)
    IN IF c.pc = "done" THEN c
       ELSE IF c.astate[k] = "done" THEN _execute_actions(c, k + 1, cfg)
       ELSE c

\* _execute_actions(rule.actions, ...) is entered
enter_actions(tk, cfg) ==
    LET n == Len(tk.actions)
        zero == [i \in 1..n |-> 0]
    IN _execute_actions(
          [tk EXCEPT !.pc = "actions",
                     !.astate = [i \in 1..n |-> "todo"],
                     !.attempt = zero, !.dispatched = zero, !.attempts = zero,
                     !.sleeps = zero, !.first_ok = zero,
                     !.result = [i \in 1..n |-> NoValue]],
          1, cfg)

\* _extract_form_data (lines 316-345) and the call of _execute_actions: a
\* detail whose formComponentValues is not a list of dicts ("bad_form") makes
\* component.get or the for loop raise, outside the try of the detail call
_extract_form_data(tk, cfg) ==
    IF tk.enrich = "bad_form"
    THEN except_Exception(tk, "AttributeError")
    ELSE enter_actions(tk, cfg)

(***************************************************************************)
(* Events                                                                  *)
(***************************************************************************)
\* event.data is a dict ("dict") with the fields below, a missing field being
\* None; or it is a JSON value that has no get method (MalformedEvents)
ApprovalEvents ==
    [event_type : {"bpms_task_change", "bpms_instance_change"}, data : {"dict"},
     result : {"agree", "refuse", NoValue},
     processCode : {"P1", "P2", "PX", NoValue},
     processInstanceId : {"i1", "i2", NoValue},
     changeType : {NoValue}, staffId : {NoValue},
     search_value : {"v", NoValue}]

HrmEvents ==
    [event_type : {"hrm_mdm_user_change"}, data : {"dict"},
     result : {NoValue}, processCode : {NoValue}, processInstanceId : {NoValue},
     changeType : {"4", "1", "8", NoValue}, staffId : {"s1", NoValue},
     search_value : {"v", NoValue}]

OtherEvents ==
    [event_type : {"chat_update_title"}, data : {"dict"},
     result : {NoValue}, processCode : {NoValue}, processInstanceId : {NoValue},
     changeType : {NoValue}, staffId : {NoValue}, search_value : {NoValue}]

MalformedEvents ==
    [event_type : {"bpms_task_change", "hrm_mdm_user_change", "chat_update_title"},
     data : {NoValue},
     result : {NoValue}, processCode : {NoValue}, processInstanceId : {NoValue},
     changeType : {NoValue}, staffId : {NoValue}, search_value : {NoValue}]

Events == ApprovalEvents \cup HrmEvents \cup OtherEvents \cup MalformedEvents

\* f"approval:{process_instance_id}" and f"hrm:{staff_id}:{change_type}"
approval_key(process_instance_id) == <<"approval", process_instance_id>>
hrm_key(staff_id, change_type) == <<"hrm", staff_id, change_type>>

\* a faulty variant: the mark is left for after the first await
dedup_gate_marks_later(tk, pe, lm, key, t) ==
    LET seen == [tk EXCEPT !.key = key,
                           !.dup_expected = key \in DOMAIN lm /\ t - lm[key] < EVENT_DEDUP_TTL]
    IN IF _is_event_processed(pe, key, t)
       THEN [tk |-> Return([seen EXCEPT !.gate = "duplicate"], STATUS_OK),
             pe |-> _is_event_processed_dict(pe, key, t), lm |-> lm]
       ELSE [tk |-> [seen EXCEPT !.gate = "fresh"],
             pe |-> _is_event_processed_dict(pe, key, t), lm |-> lm]

\* the dedup gate (lines 133-135 and 277-279): the check, then the mark, with
\* no await between them.  Gives the task, the dict and the mark history.
dedup_gate(tk, pe, lm, key, t) ==
    LET seen == [tk EXCEPT !.key = key,
                           !.dup_expected = key \in DOMAIN lm /\ t - lm[key] < EVENT_DEDUP_TTL]
        checked == _is_event_processed_dict(pe, key, t)
    IN IF _is_event_processed(pe, key, t)
       THEN [tk |-> Return([seen EXCEPT !.gate = "duplicate"], STATUS_OK),
             pe |-> checked, lm |-> lm]
       ELSE [tk |-> [seen EXCEPT !.gate = "fresh"],
             pe |-> _mark_event_processed(checked, key, t),
             lm |-> [k \in DOMAIN lm \cup {key} |-> IF k = key THEN t ELSE lm[k]]]

\* a faulty variant: only a refusal is skipped
approved_unless_refused(e) == e.result # "refuse"

\* result = event_data.get("result"); result != "agree" skips the event
approved(e) == e.result = "agree"

\* _process_approval_event up to its first await (lines 240-283);
\* event_data.get raises AttributeError when event.data is not a dict
_process_approval_event(tk, e, pe, lm, cfg, t) ==
    LET skip == [tk |-> Return(tk, STATUS_OK), pe |-> pe, lm |-> lm]
    IN IF e.data = NoValue
       THEN [tk |-> except_Exception(tk, "AttributeError"), pe |-> pe, lm |-> lm]
       ELSE IF ~approved(e) THEN skip
       ELSE IF e.processCode = NoValue THEN skip
       ELSE IF e.processCode \notin DOMAIN approvals_map(cfg) THEN skip
       ELSE IF e.processInstanceId = NoValue THEN skip
       ELSE LET g == dedup_gate(tk, pe, lm, approval_key(e.processInstanceId), t)
            IN IF g.tk.pc = "done" THEN g
               ELSE [g EXCEPT !.tk = [@ EXCEPT !.pc = "detail",
                                               !.issued = @ \cup {"detail"},
                                               !.search_value = e.search_value,
                                               !.actions = approvals_map(cfg)[e.processCode].actions]]

\* _process_hrm_event up to its first await (lines 112-160)
_process_hrm_event(tk, e, pe, lm, cfg, t) ==
    LET skip == [tk |-> Return(tk, STATUS_OK), pe |-> pe, lm |-> lm]
    IN IF e.data = NoValue
       THEN [tk |-> except_Exception(tk, "AttributeError"), pe |-> pe, lm |-> lm]
       ELSE IF e.changeType = NoValue THEN skip
       ELSE IF e.staffId = NoValue THEN skip
       ELSE LET g == dedup_gate(tk, pe, lm, hrm_key(e.staffId, e.changeType), t)
            IN IF g.tk.pc = "done" THEN g
               ELSE IF e.changeType \notin DOMAIN hrm_events_map(cfg)
               THEN [g EXCEPT !.tk = Return(@, STATUS_OK)]
               ELSE [g EXCEPT !.tk = [@ EXCEPT !.pc = "userinfo",
                                               !.issued = @ \cup {"userinfo"},
                                               !.search_value = e.search_value,
                                               !.actions = hrm_events_map(cfg)[e.changeType].actions]]

\* process (lines 91-110) up to the first await
process(tk, e, pe, lm, cfg, t) ==
    IF e.event_type = "hrm_mdm_user_change"
    THEN _process_hrm_event(tk, e, pe, lm, cfg, t)
    ELSE IF e.event_type \in {"bpms_task_change", "bpms_instance_change"}
    THEN _process_approval_event(tk, e, pe, lm, cfg, t)
    ELSE [tk |-> Return(tk, STATUS_OK), pe |-> pe, lm |-> lm]

(***************************************************************************)
(* Actions of the event handler                                            *)
(***************************************************************************)
\* a new invocation of process with an event, the reload callbacks begun so
\* far and whether none of them is still running
Stamped(e) ==
    [IdleTask EXCEPT !.event = e,
                     !.reloads = hist.callback_starts,
                     !.settled = \A i \in 1..Len(watcher.reload_tasks) :
                                     watcher.reload_tasks[i].status # "callback"]

\* the event source calls process(event) in a task of its own
Deliver(t, e) ==
    /\ e \in budget.events
    /\ tasks[t].pc = "idle"
    /\ \A u \in 1..(t - 1) : tasks[u].pc # "idle"
    /\ LET r == process(Stamped(e), e, processed_events, last_mark, handler_config, now)
       IN /\ tasks' = [tasks EXCEPT ![t] = r.tk]
          /\ processed_events' = r.pe
          /\ last_mark' = r.lm
    /\ UNCHANGED <<now, handler_config, budget, reload_vars, cache_vars, client_vars>>

\* get_process_instance returns the detail, returns an error response, or
\* raises (lines 281-308)
DetailReturn(t, out) ==
    /\ tasks[t].pc = "detail"
    /\ tasks' = [tasks EXCEPT ![t] =
                    _extract_form_data([@ EXCEPT !.enrich = out], handler_config)]
    /\ UNCHANGED <<now, handler_config, processed_events, last_mark, budget, reload_vars, cache_vars, client_vars>>

\* a faulty variant: an exception of get_user_info ends the processing
UserInfoReturn_raise_ends(t, out) ==
    /\ tasks[t].pc = "userinfo"
    /\ tasks' = [tasks EXCEPT ![t] =
                    IF out = "raise"
                    THEN except_Exception([@ EXCEPT !.enrich = out], "Exception")
                    ELSE enter_actions([@ EXCEPT !.enrich = out], handler_config)]
    /\ UNCHANGED <<now, handler_config, processed_events, last_mark, budget, reload_vars, cache_vars, client_vars>>

\* get_user_info returns the user, returns nothing, or raises (lines 157-232)
UserInfoReturn(t, out) ==
    /\ tasks[t].pc = "userinfo"
    /\ tasks' = [tasks EXCEPT ![t] = enter_actions([@ EXCEPT !.enrich = out], handler_config)]
    /\ UNCHANGED <<now, handler_config, processed_events, last_mark, budget, reload_vars, cache_vars, client_vars>>

\* a faulty variant: a webhook, shell or python action that did not succeed
\* is retried like a record action
after_call_retries(tk, k, out, cfg) ==
    IF tk.astate[k] \in {"http", "shell", "script"} /\ out # "ok"
    THEN attempt_failed(tk, k, cfg)
    ELSE [tk EXCEPT !.astate[k] = "done", !.result[k] = out]

\* what process_update_actions / process_add_actions do when the remote call
\* action k awaits comes back with out (spreadsheet_client.py:666-711, 618-633)
after_call(tk, k, out, cfg) ==
    CASE tk.astate[k] = "find" ->
            IF out = "ok" THEN [tk EXCEPT !.astate[k] = "update", !.issued = @ \cup {"update"}]
            ELSE IF out = "fail" THEN attempt_failed(tk, k, cfg)
            ELSE attempt_raised(tk, k, cfg)
      [] tk.astate[k] = "update" ->
            IF out = "ok" THEN attempt_succeeded(tk, k)
            ELSE IF out = "fail" THEN attempt_failed(tk, k, cfg)
            ELSE attempt_raised(tk, k, cfg)
      [] tk.astate[k] = "insert" ->
            IF out = "ok" THEN attempt_succeeded(tk, k)
            ELSE attempt_failed(tk, k, cfg)
      [] OTHER ->
            [tk EXCEPT !.astate[k] = "done", !.result[k] = out]

Awaits == {"find", "update", "insert", "http", "shell", "script"}

\* a remote call (or child process) of action k comes back: found/ok, a
\* failure result, or a raised error
CallReturn(t, k, out) ==
    /\ tasks[t].pc = "actions"
    /\ k \in 1..Len(tasks[t].actions)
    /\ tasks[t].astate[k] \in Awaits
    /\ tasks' = [tasks EXCEPT ![t] =
                    resume_actions(after_call(@, k, out, handler_config), k, handler_config)]
    /\ UNCHANGED <<now, handler_config, processed_events, last_mark, budget, reload_vars, cache_vars, client_vars>>

\* `except asyncio.TimeoutError` of _execute_shell (567-572: process.kill())
\* and of _execute_python (627-628: the error is logged): the children that
\* run on after the timeout of their action
timed_out(running, type, child) ==
    IF type = "shell" THEN running \ {child} ELSE running \cup {child}

\* wait_for(process.communicate(), timeout) of a shell or python action k
\* raises asyncio.TimeoutError: execution.timeout seconds have passed and the
\* child has not exited
Timeout(t, k) ==
    /\ tasks[t].pc = "actions"
    /\ k \in 1..Len(tasks[t].actions)
    /\ tasks[t].astate[k] \in {"shell", "script"}
    /\ tasks' = [tasks EXCEPT ![t] =
                    resume_actions(after_call(@, k, "timeout", handler_config), k, handler_config)]
    /\ children' = timed_out(children, tasks[t].actions[k].type, <<t, k>>)
    /\ UNCHANGED <<form, client, now, handler_config, processed_events, last_mark, budget, reload_vars, cache_vars>>

\* a child that was left running exits by itself
ChildExit(child) ==
    /\ child \in children
    /\ children' = children \ {child}
    /\ UNCHANGED <<form, client, handler_vars, reload_vars, cache_vars>>

\* asyncio.sleep(retry_interval) of action k is over
SleepDone(t, k) ==
    /\ tasks[t].pc = "actions"
    /\ k \in 1..Len(tasks[t].actions)
    /\ tasks[t].astate[k] = "sleep"
    /\ tasks' = [tasks EXCEPT ![t] =
                    resume_actions(after_sleep(@, k, handler_config), k, handler_config)]
    /\ UNCHANGED <<now, handler_config, processed_events, last_mark, budget, reload_vars, cache_vars, client_vars>>

TickSteps == {1, EVENT_DEDUP_TTL - 1}

\* time passes
Tick(d) ==
    /\ budget.ticks > 0
    /\ now' = now + d
    /\ budget' = [budget EXCEPT !.ticks = @ - 1]
    /\ UNCHANGED <<handler_config, processed_events, tasks, last_mark, reload_vars, cache_vars, client_vars>>

\* BurstSize personnel events of change types no rule is configured for, each
\* of another employee: every one passes the gate, is marked and returns at
\* line 141
DeliverBurst ==
    /\ budget.bursts > 0
    /\ processed_events' = mark_untracked(processed_events, BurstSize, now)
    /\ budget' = [budget EXCEPT !.bursts = @ - 1]
    /\ UNCHANGED <<now, handler_config, tasks, last_mark, reload_vars, cache_vars, client_vars>>

(***************************************************************************)
(* Application (src/main.py) and ConfigWatcher (src/src/config_watcher.py) *)
(***************************************************************************)
\* The text of a configuration file: one that yaml and pydantic accept and
\* the Config it spells, or an edit of it that they reject.
File(cfg) == [valid |-> TRUE, config |-> cfg]

Broken(cfg) == [valid |-> FALSE, config |-> cfg]

\* load_config raises (FileNotFoundError, a yaml error, a ValidationError) or
\* returns the Config of the text
Loads(content) == content.valid

load_config(content) == content.config

\* An asyncio task: "created" until the loop first runs it, then suspended at
\* an await ("sleeping", "callback"), then "done" or "cancelled"; status "none"
\* is no task.  must_cancel: Task.cancel() was called and the CancelledError
\* is not delivered yet.  cancelling: the CancelledError was delivered and the
\* coroutine is still running a finally block.
Task(status) == [status |-> status, must_cancel |-> FALSE, cancelling |-> FALSE]

NoTask == 0

\* not task.done()
Live(task) == task.status \in {"created", "sleeping", "callback"}

\* Task.cancel()
cancel(task) == IF Live(task) THEN [task EXCEPT !.must_cancel = TRUE] ELSE task

NoObject == 0

\* Application.__init__ (the stream client and the handler are objects, told
\* apart by the order of their creation)
Application(cfg) ==
    [pc |-> "constructed",
     config |-> cfg,
     stream_client |-> NoObject,
     event_handler |-> NoObject,
     bound_config |-> cfg,
     _running |-> FALSE,
     _stream_started |-> FALSE,
     created |-> 0,
     started_client |-> NoObject]

\* ConfigWatcher.__init__, with the reload tasks it has created so far and
\* the position of its stop() coroutine
ConfigWatcher ==
    [_running |-> FALSE,
     _task |-> Task("none"),
     _last_mtime |-> 0,
     _reload_task |-> NoTask,
     _reload_pending |-> FALSE,
     reload_tasks |-> <<>>,
     stop_pc |-> "none",
     stop_awaits |-> NoTask]

NoHistory ==
    [callback_starts |-> 0,
     unserved |-> FALSE,
     last_outcome |-> "none",
     last_reload |-> [loaded |-> FALSE, same_config |-> TRUE, same_rules |-> TRUE,
                      started |-> FALSE, client_before |-> NoObject]]

\* {a.template_id: a for a in config.approvals}
approvals_by_id(cfg) ==
    LET idx(id) == {i \in 1..Len(cfg.approvals) : cfg.approvals[i].template_id = id}
        ids == {cfg.approvals[i].template_id : i \in 1..Len(cfg.approvals)}
    IN [id \in ids |-> cfg.approvals[LastIndex(idx(id))]]

\* {e.change_type: e for e in config.hrm_events}
hrm_events_by_type(cfg) ==
    LET idx(ct) == {i \in 1..Len(cfg.hrm_events) : cfg.hrm_events[i].change_type = ct}
        cts == {cfg.hrm_events[i].change_type : i \in 1..Len(cfg.hrm_events)}
    IN [ct \in cts |-> cfg.hrm_events[LastIndex(idx(ct))]]

\* a faulty variant: only the approval rules are compared
rules_changed_approvals_only(old, new) ==
    approvals_by_id(old) # approvals_by_id(new)

\* old_approvals != new_approvals or old_hrm_events != new_hrm_events
rules_changed(old, new) ==
    \/ approvals_by_id(old) # approvals_by_id(new)
    \/ hrm_events_by_type(old) # hrm_events_by_type(new)

\* the rule entries of a snapshot, as sets of values
RuleSets(cfg) ==
    [approvals |-> {cfg.approvals[i] : i \in 1..Len(cfg.approvals)},
     hrm_events |-> {cfg.hrm_events[i] : i \in 1..Len(cfg.hrm_events)}]

\* _restart_stream_client: a new client and a new handler, bound to new_config
_restart_stream_client(a, new_config) ==
    IF ~a._stream_started
    THEN a
    ELSE [a EXCEPT !.stream_client = a.created + 1,
                   !.event_handler = a.created + 2,
                   !.bound_config = new_config,
                   !.created = @ + 2]

\* The operators of a reload work on S = [app, watcher, hist, outcome]:
\* outcome is how the reload callback left its caller ("raised", "returned")
\* or that it is suspended at an await ("awaiting").
\* a faulty variant: the failure is logged and not raised
load_failed_and_swallowed(S) == [S EXCEPT !.outcome = "returned"]

\* except Exception: logger.error(...); raise
load_failed(S) == [S EXCEPT !.outcome = "raised"]

\* _reload_config, from its start to its first suspension (the await of the
\* remote call of _process_failed_events) or to the exception it raises
_reload_config(S, content) ==
    LET h == [S.hist EXCEPT !.callback_starts = @ + 1, !.unserved = FALSE]
    IN IF ~Loads(content)
       THEN load_failed([S EXCEPT !.hist = [h EXCEPT !.last_reload.loaded = FALSE]])
       ELSE LET new_config == load_config(content)
                restarted == IF rules_changed(S.app.config, new_config)
                             THEN _restart_stream_client(S.app, new_config)
                             ELSE S.app
            IN [S EXCEPT !.app = [restarted EXCEPT !.config = new_config],
                         !.hist = [h EXCEPT !.last_reload =
                                      [loaded |-> TRUE,
                                       same_config |-> S.app.config = new_config,
                                       same_rules |-> RuleSets(S.app.config) = RuleSets(new_config),
                                       started |-> S.app._stream_started,
                                       client_before |-> S.app.stream_client]],
                         !.outcome = "awaiting"]

\* reload task i is over: done, or cancelled when a CancelledError is on its
\* way out of the coroutine
finish(S, i) ==
    LET task == S.watcher.reload_tasks[i]
    IN [S EXCEPT !.watcher.reload_tasks[i].status =
                    IF task.cancelling THEN "cancelled" ELSE "done"]

\* a faulty variant: the pending flag is cleared and the reload not run again
reload_finally_drops_pending(S, i, content) ==
    finish([S EXCEPT !.watcher._reload_pending = FALSE, !.watcher._reload_task = NoTask], i)

\* _execute_reload of reload task i, up to the next await of the task or to
\* its end: the callback, and the finally block when the callback is over
RECURSIVE _execute_reload(_, _, _)
reload_finally(S, i, content) ==
    IF S.watcher._reload_pending
    THEN _execute_reload([S EXCEPT !.watcher._reload_pending = FALSE], i, content)
    ELSE finish([S EXCEPT !.watcher._reload_task = NoTask], i)

_execute_reload(S, i, content) ==
    LET r == _reload_config(S, content)
    IN IF r.outcome = "awaiting"
       THEN [r EXCEPT !.watcher.reload_tasks[i].status = "callback"]
       ELSE reload_finally([r EXCEPT !.hist.last_outcome = r.outcome], i, content)

\* the await of the callback returns: _process_failed_events never raises
callback_returned(S, i, content) ==
    reload_finally([S EXCEPT !.hist.last_outcome = "returned"], i, content)

\* a CancelledError arrives at the await of the callback: no except clause
\* of _process_failed_events, _reload_config or _execute_reload catches it
\* (they name Exception), the finally block runs
callback_cancelled(S, i, content) ==
    reload_finally([S EXCEPT !.hist.last_outcome = "cancelled",
                             !.watcher.reload_tasks[i].must_cancel = FALSE,
                             !.watcher.reload_tasks[i].cancelling = TRUE], i, content)

\* a faulty variant: every detection creates a reload task
_trigger_reload_always(w) ==
    [w EXCEPT !._reload_pending = FALSE,
              !.reload_tasks = Append(@, Task("created")),
              !._reload_task = Len(w.reload_tasks) + 1]

_trigger_reload(w) ==
    IF w._reload_task # NoTask /\ Live(w.reload_tasks[w._reload_task])
    THEN [w EXCEPT !._reload_pending = TRUE]
    ELSE [w EXCEPT !._reload_pending = FALSE,
                   !.reload_tasks = Append(@, Task("created")),
                   !._reload_task = Len(w.reload_tasks) + 1]

\* ConfigWatcher.start (the config file exists)
start(w) ==
    IF w._running THEN w
    ELSE [w EXCEPT !._running = TRUE, !._task = Task("created")]

\* ConfigWatcher.stop up to `await self._task`
stop(w) ==
    IF ~w._running
    THEN [w EXCEPT !.stop_pc = "returned"]
    ELSE [w EXCEPT !._running = FALSE, !._task = cancel(@), !.stop_pc = "await_watch"]

\* a faulty variant: the reload task is cancelled and not awaited
stop_reload_not_awaited(w) ==
    IF w._reload_task # NoTask /\ Live(w.reload_tasks[w._reload_task])
    THEN [w EXCEPT !.reload_tasks[w._reload_task] = cancel(@), !.stop_pc = "returned"]
    ELSE [w EXCEPT !.stop_pc = "returned"]

\* ConfigWatcher.stop from the end of `await self._task` on
stop_reload(w) ==
    IF w._reload_task # NoTask /\ Live(w.reload_tasks[w._reload_task])
    THEN [w EXCEPT !.reload_tasks[w._reload_task] = cancel(@),
                   !.stop_awaits = w._reload_task,
                   !.stop_pc = "await_reload"]
    ELSE [w EXCEPT !.stop_pc = "returned"]

\* Application.stop goes on to spreadsheet_client.close() once
\* config_watcher.stop() has returned
app_after_watcher_stop(a, w) ==
    IF w.stop_pc = "returned" THEN [a EXCEPT !.pc = "closing"] ELSE a

\* create_stream_client(config, ...) registers with the client a handler of
\* its own, constructed on that config: the handler of the client that
\* Application.start starts reads the config its client was created with
registered_handler_config(a) == a.bound_config

\* a faulty variant: the handler that receives the events reads the active
\* snapshot of the application
handler_follows_reload(h, a) == a.config

\* The config of the handler that receives the events, after a reload:
\* _reload_config assigns self.config of the Application, and
\* _restart_stream_client assigns self.stream_client and self.event_handler
\* of the Application, which Application.start has already read; neither
\* assigns to, nor starts, anything the running client holds.
handler_after_reload(h, a) == h

\* a faulty variant: after a rebuild the events reach the handler of the new
\* client, whose _processed_events is empty
dedup_of_rebuilt_handler(pe, before, after) ==
    IF after.stream_client # before.stream_client THEN EmptyDict ELSE pe

\* _processed_events of the handler that receives the events, after a
\* reload: the running client keeps its handler and the handler its dict
dedup_after_reload(pe, before, after) == pe

(***************************************************************************)
(* Actions of the application and of the watcher                           *)
(***************************************************************************)
\* Application.start up to the await of the startup _process_failed_events
AppStart ==
    /\ app.pc = "constructed"
    /\ app' = [app EXCEPT !.stream_client = 1,
                          !.event_handler = 2,
                          !.bound_config = app.config,
                          !.created = 2,
                          !._running = TRUE,
                          !._stream_started = TRUE,
                          !.pc = "startup_failed_events"]
    /\ watcher' = start(watcher)
    /\ UNCHANGED <<file, hist, handler_vars, cache_vars, client_vars>>

\* the methods of UnifiedEventHandler (stream_client.py:32-704), with the
\* ones of the base class dingtalk_stream.EventHandler
HandlerMethods ==
    {"__init__", "pre_start", "raw_process", "process",
     "_is_event_processed", "_mark_event_processed", "_clean_expired_events",
     "_process_hrm_event", "_process_approval_event", "_extract_form_data",
     "_execute_actions", "_update_spreadsheet", "_send_webhook", "_execute_shell",
     "_execute_python", "_replace_placeholders", "_process_dict_placeholders",
     "_process_list_placeholders"}

\* the answer of get_failed_events: a dict with "error", or the failed_list
FailedEvents(error, failed_list) == [error |-> error, failed_list |-> failed_list]

NoFailedEvents == FailedEvents(FALSE, <<>>)

\* Application._process_failed_events once get_failed_events has answered:
\* the items of this fetch and the items the event handler was given.  The
\* call of a method the handler does not have raises AttributeError, which
\* the except of line 165 logs.
_process_failed_events(a, result) ==
    IF result.error \/ result.failed_list = <<>>
    THEN [fetched |-> result.failed_list, replayed |-> <<>>]
    ELSE IF a.event_handler # NoObject /\ "process_failed_events" \in HandlerMethods
    THEN [fetched |-> result.failed_list, replayed |-> result.failed_list]
    ELSE [fetched |-> result.failed_list, replayed |-> <<>>]

\* the startup _process_failed_events is over: await self.stream_client.start()
StartupFailedEvents(result) ==
    /\ app.pc = "startup_failed_events"
    /\ app' = [app EXCEPT !.pc = "streaming", !.started_client = app.stream_client]
    /\ handler_config' = registered_handler_config(app)
    /\ client' = [client EXCEPT !.failed = _process_failed_events(app, result)]
    /\ UNCHANGED <<watcher, file, hist, now, processed_events, tasks, last_mark, budget, cache_vars, form, children>>

StartupFailedEventsReturn == StartupFailedEvents(NoFailedEvents)

\* the watch task starts to run: _watch_with_polling up to its first sleep
\* (the watchfiles strategy calls _trigger_reload in the same way, once for
\* each change it reports)
WatchLoopBegin ==
    /\ watcher._task.status = "created"
    /\ ~watcher._task.must_cancel
    /\ watcher' = [watcher EXCEPT !._task.status = "sleeping", !._last_mtime = file.mtime]
    /\ UNCHANGED <<app, file, hist, handler_vars, cache_vars, client_vars>>

\* somebody writes the configuration file
ModifyFile(content) ==
    /\ file.mtime < MaxModifications
    /\ file' = [content |-> content, mtime |-> file.mtime + 1]
    /\ UNCHANGED <<app, watcher, hist, handler_vars, cache_vars, client_vars>>

\* the poll sleep is over and the file is newer than _last_mtime
Poll ==
    /\ watcher._task.status = "sleeping"
    /\ ~watcher._task.must_cancel
    /\ file.mtime > watcher._last_mtime
    /\ watcher' = _trigger_reload([watcher EXCEPT !._last_mtime = file.mtime])
    /\ hist' = [hist EXCEPT !.unserved = TRUE]
    /\ UNCHANGED <<app, file, handler_vars, cache_vars, client_vars>>

ReloadState == [app |-> app, watcher |-> watcher, hist |-> hist, outcome |-> "none"]

ReloadTasks == 1..Len(watcher.reload_tasks)

\* the loop runs a reload task for the first time
ReloadTaskRun(i) ==
    /\ watcher.reload_tasks[i].status = "created"
    /\ ~watcher.reload_tasks[i].must_cancel
    /\ LET r == _execute_reload(ReloadState, i, file.content)
       IN /\ app' = r.app /\ watcher' = r.watcher /\ hist' = r.hist
          /\ handler_config' = handler_after_reload(handler_config, r.app)
          /\ processed_events' = dedup_after_reload(processed_events, app, r.app)
    /\ UNCHANGED <<file, now, tasks, last_mark, budget, cache_vars, client_vars>>

\* the remote call of _process_failed_events inside a reload comes back
ReloadFailedEvents(i, result) ==
    /\ watcher.reload_tasks[i].status = "callback"
    /\ ~watcher.reload_tasks[i].must_cancel
    /\ LET r == callback_returned(ReloadState, i, file.content)
       IN /\ app' = r.app /\ watcher' = r.watcher /\ hist' = r.hist
          /\ handler_config' = handler_after_reload(handler_config, r.app)
          /\ processed_events' = dedup_after_reload(processed_events, app, r.app)
    /\ client' = [client EXCEPT !.failed = _process_failed_events(app, result)]
    /\ UNCHANGED <<file, now, tasks, last_mark, budget, cache_vars, form, children>>

FailedEventsReturn(i) == ReloadFailedEvents(i, NoFailedEvents)

\* stream_client.start() returns or raises: finally: await self.stop()
StreamEnds ==
    /\ app.pc = "streaming"
    /\ watcher' = stop(watcher)
    /\ app' = app_after_watcher_stop(
                  [app EXCEPT !._running = FALSE, !._stream_started = FALSE, !.pc = "stopping"],
                  watcher')
    /\ UNCHANGED <<file, hist, handler_vars, cache_vars, client_vars>>

\* the CancelledError reaches the watch task (at its sleep, or before it ran)
WatchTaskCancelled ==
    /\ watcher._task.must_cancel
    /\ watcher' = [watcher EXCEPT !._task = [@ EXCEPT !.status = "cancelled", !.must_cancel = FALSE]]
    /\ UNCHANGED <<app, file, hist, handler_vars, cache_vars, client_vars>>

\* `await self._task` of stop() is over
StopAfterWatch ==
    /\ watcher.stop_pc = "await_watch"
    /\ ~Live(watcher._task)
    /\ watcher' = stop_reload(watcher)
    /\ app' = app_after_watcher_stop(app, watcher')
    /\ UNCHANGED <<file, hist, handler_vars, cache_vars, client_vars>>

\* the CancelledError reaches a reload task: one that never ran ends there,
\* one suspended in the callback runs its finally block
ReloadTaskCancelled(i) ==
    /\ watcher.reload_tasks[i].must_cancel
    /\ IF watcher.reload_tasks[i].status = "created"
       THEN /\ watcher' = [watcher EXCEPT !.reload_tasks[i] =
                              [@ EXCEPT !.status = "cancelled", !.must_cancel = FALSE]]
            /\ UNCHANGED <<app, hist, handler_config, processed_events>>
       ELSE LET r == callback_cancelled(ReloadState, i, file.content)
            IN /\ app' = r.app /\ watcher' = r.watcher /\ hist' = r.hist
               /\ handler_config' = handler_after_reload(handler_config, r.app)
               /\ processed_events' = dedup_after_reload(processed_events, app, r.app)
    /\ UNCHANGED <<file, now, tasks, last_mark, budget, cache_vars, client_vars>>

\* `await self._reload_task` of stop() is over
StopAfterReload ==
    /\ watcher.stop_pc = "await_reload"
    /\ ~Live(watcher.reload_tasks[watcher.stop_awaits])
    /\ watcher' = [watcher EXCEPT !.stop_pc = "returned"]
    /\ app' = app_after_watcher_stop(app, watcher')
    /\ UNCHANGED <<file, hist, handler_vars, cache_vars, client_vars>>

\* spreadsheet_client.close() is over: Application.stop returns
CloseDone ==
    /\ app.pc = "closing"
    /\ app' = [app EXCEPT !.pc = "stopped"]
    /\ UNCHANGED <<watcher, file, hist, handler_vars, cache_vars, client_vars>>

(***************************************************************************)
(* CacheManager (src/src/cache.py), a cachetools.TTLCache with counters     *)
(***************************************************************************)
\* CacheManager(ttl, maxsize): the arguments of the instance that is modelled
ttl == 2

maxsize == 2

CacheKeys == {"k1", "k2", "k3"}

CacheValues == {"v", "w"}

\* cachetools.TTLCache(maxsize, ttl), empty: links is the OrderedDict of the
\* keys, least recently used first; chain is the linked list of the keys in
\* the order of their expiry; data and expires give the value and the expiry
\* time of each key.  An expired key stays in all four until expire() runs.
TTLCache == [links |-> <<>>, chain |-> <<>>, data |-> EmptyFn, expires |-> EmptyFn]

Without(seq, key) == SelectSeq(seq, LAMBDA x : x # key)

Keys(c) == DOMAIN c.data

\* the keys a lookup at the given time finds
Unexpired(c, time) == {key \in Keys(c) : time < c.expires[key]}

\* Cache.__delitem__ of a key and the removal of its link
unlink(c, key) ==
    [links |-> Without(c.links, key),
     chain |-> Without(c.chain, key),
     data |-> Restrict(c.data, Keys(c) \ {key}),
     expires |-> Restrict(c.expires, Keys(c) \ {key})]

\* a faulty variant: an entry is dropped one second before its expiry
RECURSIVE expire_early(_, _)
expire_early(c, time) ==
    IF c.chain # <<>> /\ ~(time + 1 < c.expires[Head(c.chain)])
    THEN expire_early(unlink(c, Head(c.chain)), time)
    ELSE c

\* TTLCache.expire(time): walks the chain from its head and removes every
\* link with not (time < link.expires)
RECURSIVE expire(_, _)
expire(c, time) ==
    IF c.chain # <<>> /\ ~(time < c.expires[Head(c.chain)])
    THEN expire(unlink(c, Head(c.chain)), time)
    ELSE c

\* a faulty variant: a lookup leaves the order of the keys as it is
TTLCache_getitem_untouched(c, key, time) ==
    IF key \notin Keys(c) \/ ~(time < c.expires[key])
    THEN [cache |-> c, raised |-> TRUE, value |-> NoValue]
    ELSE [cache |-> c, raised |-> FALSE, value |-> c.data[key]]

\* self._cache[key]: TTLCache.__getitem__ moves the key to the end of links
\* (__getlink), then raises KeyError for a missing or an expired key
TTLCache_getitem(c, key, time) ==
    IF key \notin Keys(c)
    THEN [cache |-> c, raised |-> TRUE, value |-> NoValue]
    ELSE LET moved == [c EXCEPT !.links = Append(Without(@, key), key)]
         IN IF ~(time < c.expires[key])
            THEN [cache |-> moved, raised |-> TRUE, value |-> NoValue]
            ELSE [cache |-> moved, raised |-> FALSE, value |-> c.data[key]]

\* TTLCache.popitem: expires, then removes the first key of links
popitem(c, time) ==
    LET e == expire(c, time)
    IN IF e.links = <<>> THEN e ELSE unlink(e, Head(e.links))

\* Cache.__setitem__: while self.currsize + size > maxsize: self.popitem()
RECURSIVE make_room(_, _)
make_room(c, time) ==
    IF Cardinality(Keys(c)) + 1 > maxsize /\ Keys(c) # {}
    THEN make_room(popitem(c, time), time)
    ELSE c

\* self._cache[key] = value: TTLCache.__setitem__ expires, makes room for a
\* key it does not hold, stores the value, moves the key to the end of links
\* and its link, with expires = time + ttl, to the end of the chain
TTLCache_setitem(c, key, value, time) ==
    LET e == expire(c, time)
        room == IF key \in Keys(e) THEN e ELSE make_room(e, time)
    IN [links |-> Append(Without(room.links, key), key),
        chain |-> Append(Without(room.chain, key), key),
        data |-> [k \in Keys(room) \cup {key} |-> IF k = key THEN value ELSE room.data[k]],
        expires |-> [k \in Keys(room) \cup {key} |->
                        IF k = key THEN time + ttl ELSE room.expires[k]]]

\* a faulty variant: an expired key that is still held is deleted without error
TTLCache_delitem_expired_ok(c, key, time) ==
    IF key \notin Keys(c)
    THEN [cache |-> c, raised |-> TRUE]
    ELSE [cache |-> unlink(c, key), raised |-> FALSE]

\* del self._cache[key]: TTLCache.__delitem__ raises KeyError for a missing
\* key, else removes the key and raises KeyError if it had expired
TTLCache_delitem(c, key, time) ==
    IF key \notin Keys(c)
    THEN [cache |-> c, raised |-> TRUE]
    ELSE [cache |-> unlink(c, key), raised |-> ~(time < c.expires[key])]

\* len(self._cache): expires, then counts
TTLCache_len(c, time) ==
    LET e == expire(c, time)
    IN [cache |-> e, value |-> Cardinality(Keys(e))]

\* CacheManager.__init__
CacheManager == [_cache |-> TTLCache, _hits |-> 0, _misses |-> 0]

\* CacheManager.get
get(m, key, time) ==
    LET r == TTLCache_getitem(m._cache, key, time)
    IN IF r.raised
       THEN [m |-> [m EXCEPT !._cache = r.cache, !._misses = @ + 1], ret |-> NoValue]
       ELSE [m |-> [m EXCEPT !._cache = r.cache, !._hits = @ + 1], ret |-> r.value]

\* CacheManager.set
set(m, key, value, time) ==
    [m EXCEPT !._cache = TTLCache_setitem(@, key, value, time)]

\* CacheManager.delete
delete(m, key, time) ==
    LET r == TTLCache_delitem(m._cache, key, time)
    IN [m |-> [m EXCEPT !._cache = r.cache], ret |-> ~r.raised]

\* CacheManager.clear: len(self._cache), then self._cache.clear()
clear(m, time) == [m EXCEPT !._cache = TTLCache]

\* CacheManager.size
size(m, time) ==
    LET r == TTLCache_len(m._cache, time)
    IN [m |-> [m EXCEPT !._cache = r.cache], ret |-> r.value]

\* History of the calls of the cache: the number of calls, the last call
\* (op, key, value, time) and its result (ret of get, deleted of delete,
\* length of size); written[key] is the value and the time of the last set
\* of the key, live until a delete, a clear or a capacity eviction; recent
\* lists the keys, least recently accessed (by a get that hit or a set)
\* first; for a set: full_new (the key was not held and maxsize unexpired
\* entries were), evicted (the unexpired keys it dropped), lru (the least
\* recently accessed unexpired key before it); for a get: on_expired and
\* counted (what it did to the counters)
NoCalls ==
    [n |-> 0, op |-> "none", key |-> NoValue, value |-> NoValue, time |-> 0,
     ret |-> NoValue, deleted |-> FALSE, length |-> 0,
     written |-> EmptyFn, recent |-> <<>>,
     full_new |-> FALSE, evicted |-> {}, lru |-> NoValue,
     on_expired |-> FALSE, counted |-> "none"]

Called(op, key, value) ==
    [cache_hist EXCEPT !.n = @ + 1, !.op = op, !.key = key, !.value = value,
                       !.time = monotonic, !.ret = NoValue, !.deleted = FALSE,
                       !.length = 0, !.full_new = FALSE, !.evicted = {},
                       !.lru = NoValue, !.on_expired = FALSE, !.counted = "none"]

\* the keys written, not removed since and younger than ttl
LiveKeys(h, time) ==
    {key \in DOMAIN h.written : h.written[key].live /\ time - h.written[key].time < ttl}

Touched(recent, key) == Append(Without(recent, key), key)

Removed(written, keys) ==
    [k \in DOMAIN written |-> IF k \in keys THEN [written[k] EXCEPT !.live = FALSE]
                              ELSE written[k]]

CacheInit ==
    /\ cache = CacheManager
    /\ monotonic = 0
    /\ cache_hist = NoCalls

Get(key) ==
    /\ cache_hist.n < MaxCacheOps
    /\ LET r == get(cache, key, monotonic)
           live == LiveKeys(cache_hist, monotonic)
       IN /\ cache' = r.m
          /\ cache_hist' =
                [Called("get", key, NoValue) EXCEPT
                    !.ret = r.ret,
                    !.recent = IF r.ret # NoValue THEN Touched(@, key) ELSE @,
                    !.on_expired = /\ key \in DOMAIN cache_hist.written
                                   /\ cache_hist.written[key].live
                                   /\ key \notin live,
                    !.counted = IF r.m._hits = cache._hits + 1 /\ r.m._misses = cache._misses
                                THEN "hit"
                                ELSE IF r.m._hits = cache._hits /\ r.m._misses = cache._misses + 1
                                THEN "miss" ELSE "other"]
    /\ UNCHANGED <<monotonic, handler_vars, reload_vars, client_vars>>

Set(key, value) ==
    /\ cache_hist.n < MaxCacheOps
    /\ LET m == set(cache, key, value, monotonic)
           before == Unexpired(cache._cache, monotonic)
           live == LiveKeys(cache_hist, monotonic)
           full_new == key \notin live /\ Cardinality(live) = maxsize
           evicted == before \ Keys(m._cache)
           order == SelectSeq(cache_hist.recent, LAMBDA k : k \in live)
       IN /\ cache' = m
          /\ cache_hist' =
                [Called("set", key, value) EXCEPT
                    !.written = [k \in DOMAIN @ \cup {key} |->
                                    IF k = key
                                    THEN [value |-> value, time |-> monotonic, live |-> TRUE]
                                    ELSE IF full_new /\ k \in evicted
                                    THEN [@[k] EXCEPT !.live = FALSE]
                                    ELSE @[k]],
                    !.recent = Touched(@, key),
                    !.full_new = full_new,
                    !.evicted = evicted,
                    !.lru = IF order = <<>> THEN NoValue ELSE Head(order)]
    /\ UNCHANGED <<monotonic, handler_vars, reload_vars, client_vars>>

Delete(key) ==
    /\ cache_hist.n < MaxCacheOps
    /\ LET r == delete(cache, key, monotonic)
       IN /\ cache' = r.m
          /\ cache_hist' = [Called("delete", key, NoValue) EXCEPT
                               !.deleted = r.ret,
                               !.written = Removed(@, {key})]
    /\ UNCHANGED <<monotonic, handler_vars, reload_vars, client_vars>>

Clear ==
    /\ cache_hist.n < MaxCacheOps
    /\ cache' = clear(cache, monotonic)
    /\ cache_hist' = [Called("clear", NoValue, NoValue) EXCEPT
                         !.written = Removed(@, DOMAIN @)]
    /\ UNCHANGED <<monotonic, handler_vars, reload_vars, client_vars>>

Size ==
    /\ cache_hist.n < MaxCacheOps
    /\ LET r == size(cache, monotonic)
       IN /\ cache' = r.m
          /\ cache_hist' = [Called("size", NoValue, NoValue) EXCEPT !.length = r.ret]
    /\ UNCHANGED <<monotonic, handler_vars, reload_vars, client_vars>>

\* time.monotonic() advances by a second
CacheTick ==
    /\ monotonic < MaxCacheTime
    /\ monotonic' = monotonic + 1
    /\ UNCHANGED <<cache, cache_hist, handler_vars, reload_vars, client_vars>>

(***************************************************************************)
(* Form data (src/src/stream_client.py)                                    *)
(* A dict is a function from its keys; a list is a sequence.               *)
(***************************************************************************)
\* dict.get(key)
dict_get(d, key) == IF key \in DOMAIN d THEN d[key] ELSE NoValue

\* a faulty variant: a key the dict already holds keeps its value
assign_missing_only(d, other) ==
    [k \in DOMAIN d \cup DOMAIN other |-> IF k \in DOMAIN d THEN d[k] ELSE other[k]]

\* d[key] = value for every key of other
assign(d, other) ==
    [k \in DOMAIN d \cup DOMAIN other |-> IF k \in DOMAIN other THEN other[k] ELSE d[k]]

\* for key, value in other.items(): if key not in d: d[key] = value
fill_missing(d, other) ==
    [k \in DOMAIN d \cup DOMAIN other |-> IF k \in DOMAIN d THEN d[k] ELSE other[k]]

\* the names of the change types (the source has them in Chinese)
HRM_CHANGE_TYPE_MAP ==
    [c \in {"1", "2", "3", "4", "8"} |->
        CASE c = "1" -> "onboarding" [] c = "2" -> "regularization"
          [] c = "3" -> "transfer" [] c = "4" -> "resignation" [] OTHER -> "promotion"]

\* lines 169-187, 202-219: the keys of the user info copied to the top level
\* of the form, each under its aliases
UserAliases ==
    [userid |-> {"userId", "userid"}, unionid |-> {"unionId", "unionid"},
     name |-> {"name", "userName"}, avatar |-> {"avatar"},
     mobile |-> {"mobile", "phone"}, email |-> {"email"},
     position |-> {"position", "jobTitle"}, workPlace |-> {"workPlace", "location"},
     active |-> {"active", "isActive"}, statecode |-> {"stateCode"},
     boss |-> {"isBoss"}, admin |-> {"isAdmin"}, senior |-> {"isSenior"}]

RECURSIVE join(_, _)
\* sep.join(list) of a list of strings
join(sep, list) ==
    IF list = <<>> THEN ""
    ELSE IF Len(list) = 1 THEN list[1]
    ELSE list[1] \o sep \o join(sep, Tail(list))

\* lines 165-219: the user info merged into the form
merge_user_info(form_data, user_info) ==
    LET present == DOMAIN UserAliases \cap DOMAIN user_info
        targets == UNION {UserAliases[k] : k \in present}
        aliases == [a \in targets |->
                       user_info[CHOOSE k \in present : a \in UserAliases[k]]]
        dept_ids == IF "dept_id_list" \in DOMAIN user_info
                    THEN [deptIdList |-> user_info.dept_id_list,
                          deptIds |-> join(", ", user_info.dept_id_list)]
                    ELSE EmptyFn
        first_dept == IF "dept_list" \in DOMAIN user_info /\ user_info.dept_list # <<>>
                      THEN user_info.dept_list[1] ELSE EmptyFn
        dept == [a \in {"deptId" : x \in {"dept_id"} \cap DOMAIN first_dept}
                       \cup {"deptName" : x \in {"name"} \cap DOMAIN first_dept} |->
                    IF a = "deptId" THEN first_dept.dept_id ELSE first_dept.name]
    IN assign(assign(assign(assign(form_data, [userInfo |-> user_info]), aliases),
                     dept_ids), dept)

\* lines 146-229 of _process_hrm_event: the form built from the event data
\* and from what get_user_info returned (an empty dict when the lookup
\* failed; a lookup that raised leaves the form as an empty dict does)
hrm_form_data(event_data, user_info) ==
    LET change_type == event_data.changeType
        form_data == [staffId |-> event_data.staffId,
                      changeType |-> change_type,
                      changeTypeName |-> IF change_type \in DOMAIN HRM_CHANGE_TYPE_MAP
                                         THEN HRM_CHANGE_TYPE_MAP[change_type]
                                         ELSE change_type]
        with_event == fill_missing(form_data, event_data)
    IN IF DOMAIN user_info = {} THEN with_event
       ELSE merge_user_info(with_event, user_info)

\* ---- _extract_form_data (stream_client.py:316-345) ----

\* `if x:` for a string or None
Truthy(x) == x # NoValue /\ x # ""

RECURSIVE components_into(_, _)
\* lines 324-335: the loop over event_data["formComponentValues"]
components_into(form_data, components) ==
    IF components = <<>> THEN form_data
    ELSE LET component == Head(components)
             name == dict_get(component, "name")
             value == dict_get(component, "value")
             ext_value == dict_get(component, "extValue")
             named == assign(form_data, name :> value)
         IN components_into(
               IF ~Truthy(name) THEN form_data
               ELSE IF Truthy(ext_value) THEN assign(named, (name \o "_ext") :> ext_value)
               ELSE named,
               Tail(components))

\* line 339: the keys of the event data that are not copied to the form
ExcludedKeys == {"process_code", "result", "instance_id", "task_id", "formComponentValues"}

\* a faulty variant: the flat fields of the event data overwrite the form
flat_fields_overwrite(form_data, event_data) ==
    assign(form_data, [k \in DOMAIN event_data \ ExcludedKeys |-> event_data[k]])

\* lines 338-342: the flat fields of the event data fill the keys the form lacks
flat_fields(form_data, event_data) ==
    fill_missing(form_data, [k \in DOMAIN event_data \ ExcludedKeys |-> event_data[k]])

\* the function itself; the task-level step of the same name is _extract_form_data
extract_form_data(event_data) ==
    flat_fields(IF "formComponentValues" \in DOMAIN event_data
                THEN components_into(EmptyFn, event_data.formComponentValues)
                ELSE EmptyFn,
                event_data)

\* ---- _replace_placeholders (stream_client.py:632-659) ----
\* A text is the sequence of its characters, "F" standing for the ten
\* characters `form_data:`. A value of the form carries its Python type:
\* a str (v: its characters), a dict (v: a function from keys, which are
\* texts, to values) or None.
None == [type |-> "NoneType", v |-> <<>>]

Str(chars) == [type |-> "str", v |-> chars]

Dict(d) == [type |-> "dict", v |-> d]

RECURSIVE str(_)
\* str(value); the dicts of the inputs hold at most one key
str(value) ==
    CASE value.type = "str" -> value.v
      [] value.type = "NoneType" -> <<"N", "o", "n", "e">>
      [] OTHER ->
            IF DOMAIN value.v = {} THEN <<"{", "}">>
            ELSE LET key == CHOOSE k \in DOMAIN value.v : TRUE
                     item == value.v[key]
                 IN <<"{", "'">> \o key \o <<"'", ":", " ">>
                    \o (IF item.type = "str" THEN <<"'">> \o item.v \o <<"'">> ELSE str(item))
                    \o <<"}">>

RECURSIVE split(_, _)
\* chars.split(sep)
split(chars, sep) ==
    IF \A i \in 1..Len(chars) : chars[i] # sep THEN <<chars>>
    ELSE LET i == CHOOSE i \in 1..Len(chars) :
                     chars[i] = sep /\ \A j \in 1..(i - 1) : chars[j] # sep
         IN <<SubSeq(chars, 1, i - 1)>> \o split(SubSeq(chars, i + 1, Len(chars)), sep)

RECURSIVE walk_keeps_last(_, _)
\* a faulty variant: a path through a value that is no dict yields that value
walk_keeps_last(value, keys) ==
    IF keys = <<>> THEN IF value.type = "NoneType" THEN <<>> ELSE str(value)
    ELSE IF value.type = "dict"
    THEN walk_keeps_last(IF Head(keys) \in DOMAIN value.v THEN value.v[Head(keys)] ELSE None,
                         Tail(keys))
    ELSE str(value)

RECURSIVE walk(_, _)
\* lines 649-655: the loop over the keys of the path and the final str()
walk(value, keys) ==
    IF keys = <<>> THEN IF value.type = "NoneType" THEN <<>> ELSE str(value)
    ELSE IF value.type = "dict"
    THEN walk(IF Head(keys) \in DOMAIN value.v THEN value.v[Head(keys)] ELSE None, Tail(keys))
    ELSE <<>>

\* lines 646-655
replace_match(field_path, form_data) == walk(Dict(form_data), split(field_path, "."))

RECURSIVE re_sub(_, _)
\* re.sub(r'\{form_data:([^}]+)\}', replace_match, text): the leftmost match
\* at each position, the text after a match scanned on
re_sub(text, form_data) ==
    IF text = <<>> THEN <<>>
    ELSE IF /\ Len(text) >= 4
            /\ text[1] = "{" /\ text[2] = "F" /\ text[3] # "}"
            /\ \E j \in 4..Len(text) : text[j] = "}"
    THEN LET j == CHOOSE j \in 4..Len(text) :
                     text[j] = "}" /\ \A m \in 4..(j - 1) : text[m] # "}"
         IN replace_match(SubSeq(text, 3, j - 1), form_data)
            \o re_sub(SubSeq(text, j + 1, Len(text)), form_data)
    ELSE <<Head(text)>> \o re_sub(Tail(text), form_data)

_replace_placeholders(text, form_data) == re_sub(text, form_data)

\* ---- the calls of the three functions that the model makes ----
\* ---- get_process_instance and the merge of what it returns ----
\* What the detail request meets: _get_access_token raises ("token_raise"),
\* the request or response.json() raises ("request_raise"), or the service
\* answers with a JSON object ("json", .data).
NoDetailResponse == [kind |-> "none", data |-> EmptyFn]

Raises(kind) == [kind |-> kind, data |-> EmptyFn]

Json(data) == [kind |-> "json", data |-> data]

\* get_process_instance (spreadsheet_client.py:60-95): .raised, or the value
\* returned, .none telling that it is None (the except of line 94 logs and
\* the function ends without a return)
get_process_instance(response) ==
    CASE response.kind = "token_raise" -> [raised |-> TRUE, none |-> FALSE, value |-> EmptyFn]
      [] response.kind = "request_raise" -> [raised |-> FALSE, none |-> TRUE, value |-> EmptyFn]
      [] OTHER ->
            [raised |-> FALSE, none |-> FALSE,
             value |-> IF Truthy(dict_get(response.data, "success"))
                       THEN response.data.result
                       ELSE response.data]

\* stream_client.py:282-291: event_data.update(instance_details) inside a try;
\* update(None) raises TypeError, which the except of line 289 logs
with_instance_details(event_data, response) ==
    LET instance_details == get_process_instance(response)
    IN IF instance_details.raised \/ instance_details.none THEN event_data
       ELSE assign(event_data, instance_details.value)

\* lines 281-294: the form of an approval event
approval_form_data(event_data, response) ==
    extract_form_data(with_instance_details(event_data, response))

NoCall ==
    [fn |-> "none", done |-> TRUE, event_data |-> EmptyFn, user_info |-> EmptyFn,
     text |-> <<>>, form_data |-> EmptyFn, response |-> NoDetailResponse, out |-> EmptyFn]

Call(fn, event_data, user_info, text, form_data) ==
    [NoCall EXCEPT !.fn = fn, !.done = FALSE, !.event_data = event_data,
                   !.user_info = user_info, !.text = text, !.form_data = form_data]

\* personnel events with and without flat fields named like the aliases
HrmEventData ==
    {fill_missing([staffId |-> "s1", changeType |-> c],
                  [k \in S |-> CASE k = "name" -> "Raw" [] k = "deptId" -> "99"
                                 [] k = "deptName" -> "RawDept" [] OTHER -> [raw |-> "1"]]) :
        c \in {"4", "5"}, S \in SUBSET {"name", "deptId", "deptName", "userInfo"}}

DeptLists ==
    {<<>>, <<[dept_id |-> "10", name |-> "Eng"]>>, <<[dept_id |-> "10"]>>,
     <<[dept_id |-> "20", name |-> "Ops"], [dept_id |-> "10", name |-> "Eng"]>>}

\* what get_user_info returns: an empty dict or some fields of the user
UserInfos ==
    {[k \in S |-> CASE k = "name" -> "Jane" [] k = "mobile" -> "138"
                    [] k = "dept_id_list" -> ids [] OTHER -> depts] :
        S \in SUBSET {"name", "mobile", "dept_id_list", "dept_list"},
        ids \in {<<"10">>, <<"20", "10">>}, depts \in DeptLists}

Components ==
    {[k \in S |-> CASE k = "name" -> n [] k = "value" -> "1" [] OTHER -> "e"] :
        S \in SUBSET {"name", "value", "extValue"}, n \in {"a", "b"}}

ComponentLists == UNION {[1..n -> Components] : n \in 0..MaxComponents}

\* approval event data: with or without form components, with flat fields
\* that are excluded ("result"), that are named like a component ("a",
\* "a_ext") or that are neither ("title")
ApprovalEventData ==
    {fill_missing([k \in S |-> "raw"], d) :
        S \in SUBSET {"a", "a_ext", "result", "title"},
        d \in {EmptyFn} \cup {[formComponentValues |-> cs] : cs \in ComponentLists}}

Segments ==
    {<<"x">>, <<"{">>, <<"}">>, <<"{", "F">>, <<"a">>, <<"a", ".", "b">>,
     <<"{", "F", "a", ".", "b", "}">>}

RECURSIVE concat(_)
concat(segments) ==
    IF segments = <<>> THEN <<>> ELSE Head(segments) \o concat(Tail(segments))

Texts == {concat(segments) : segments \in UNION {[1..n -> Segments] : n \in 0..MaxSegments}}

\* forms where the path a.b resolves to a str, to None and to a dict, passes
\* through a str, and is missing
Forms ==
    {(<<"a">> :> Dict(<<"b">> :> Str(<<"X">>))),
     (<<"a">> :> Dict(<<"b">> :> None)),
     (<<"a">> :> Dict(<<"b">> :> Dict(EmptyFn))),
     (<<"a">> :> Str(<<"S">>)),
     EmptyFn}

FormCalls ==
    {Call("hrm", e, u, <<>>, EmptyFn) : e \in HrmEventData, u \in UserInfos}
    \cup {Call("extract", e, EmptyFn, <<>>, EmptyFn) : e \in ApprovalEventData}
    \cup {Call("replace", EmptyFn, EmptyFn, text, f) : text \in Texts, f \in Forms}

\* _process_hrm_event builds the form of a personnel event
BuildHrmForm ==
    /\ form.fn = "hrm" /\ ~form.done
    /\ form' = [form EXCEPT !.done = TRUE,
                            !.out = hrm_form_data(form.event_data, form.user_info)]
    /\ UNCHANGED <<client, children, handler_vars, reload_vars, cache_vars>>

\* _process_approval_event extracts the form of an approval event
ExtractFormData ==
    /\ form.fn = "extract" /\ ~form.done
    /\ form' = [form EXCEPT !.done = TRUE, !.out = extract_form_data(form.event_data)]
    /\ UNCHANGED <<client, children, handler_vars, reload_vars, cache_vars>>

\* _process_approval_event fetches the detail of the instance and extracts
\* the form
FetchDetail ==
    /\ form.fn = "detail" /\ ~form.done
    /\ form' = [form EXCEPT !.done = TRUE,
                            !.out = approval_form_data(form.event_data, form.response)]
    /\ UNCHANGED <<client, children, handler_vars, reload_vars, cache_vars>>

\* an action substitutes the placeholders of a text
ReplacePlaceholders ==
    /\ form.fn = "replace" /\ ~form.done
    /\ form' = [form EXCEPT !.done = TRUE,
                            !.out = _replace_placeholders(form.text, form.form_data)]
    /\ UNCHANGED <<client, children, handler_vars, reload_vars, cache_vars>>

(***************************************************************************)
(* SpreadsheetClient (src/src/spreadsheet_client.py)                       *)
(***************************************************************************)
\* ---- the response to a record mutation and what the client makes of it ----
\* raised: client.put / client.post or response.json() raised; else the
\* HTTP status code and two fields of the JSON body: errcode ("absent", "0"
\* or another code) and value ("absent", "null", "empty", or "ids": a list
\* of created or updated record ids)
Response(raised, status_code, errcode, value) ==
    [raised |-> raised, status_code |-> status_code, errcode |-> errcode, value |-> value]

WriteResponses ==
    {Response(TRUE, 0, "absent", "absent")}
    \cup {Response(FALSE, sc, ec, v) : sc \in {200, 400, 500}, ec \in {"absent", "0", "1"},
                                       v \in {"absent", "null", "empty", "ids"}}

\* update_records (lines 478-490): "raise", or the bool it returns
update_records(response) ==
    IF response.raised THEN "raise"
    ELSE IF response.value \in {"absent", "null"} THEN "fail"
    ELSE "ok"

\* a faulty variant: the HTTP status code of an insert is not looked at
add_records_any_status(response) ==
    IF \/ response.raised
       \/ response.errcode \notin {"absent", "0"}
       \/ response.value = "null"
    THEN [raised |-> TRUE, ids |-> <<>>]
    ELSE [raised |-> FALSE, ids |-> IF response.value = "ids" THEN <<"r1">> ELSE <<>>]

\* add_records (lines 547-567): it raises (the request or json() raised, an
\* errcode other than 0, a status code >= 400, a null value that cannot be
\* iterated) or returns the list of the ids of the value
add_records(response) ==
    IF \/ response.raised
       \/ response.errcode \notin {"absent", "0"}
       \/ response.status_code >= 400
       \/ response.value = "null"
    THEN [raised |-> TRUE, ids |-> <<>>]
    ELSE [raised |-> FALSE, ids |-> IF response.value = "ids" THEN <<"r1">> ELSE <<>>]

\* process_add_actions (lines 618-633): the bool it returns
process_add_actions(response) ==
    LET added == add_records(response)
    IN IF added.raised \/ added.ids = <<>> THEN "fail" ELSE "ok"

NoResponse == [flip |-> FALSE, call |-> "none", t |-> 0, k |-> 0,
               response |-> Response(TRUE, 0, "absent", "absent")]

\* the last failed-delivery fetch of the application: the items it returned
\* and the items handed to the event handler
NoFetch == [fetched |-> <<>>, replayed |-> <<>>]

\* ---- _get_access_token (291-329) and get_user_info (132-179) ----
\* A call of one of the two methods: fn, the cache key of a user lookup,
\* where the call stands (idle, exchange: awaiting the token request,
\* user_get: awaiting the user request, depts: awaiting the department
\* lookups, returned, raised), the requests it has sent, the answers it got
\* (the accessToken and the result, "absent" or "error" otherwise), the user
\* info it is completing and the value it returned.  A user info is named by a
\* string; "{}" is the empty dict.
IdleCall ==
    [fn |-> "none", pc |-> "idle", key |-> NoValue, exchanges |-> 0, lookups |-> 0,
     token_answer |-> NoValue, user_answer |-> NoValue,
     user_info |-> NoValue, failed |-> FALSE, ret |-> NoValue]

Calls == 1..NumCalls

\* cache_key = f"user:{userid}:lang:{language}"
user_cache_key(userid, language) == "user:" \o userid \o ":lang:" \o language

UserKeys == {user_cache_key("u1", "zh_CN"), user_cache_key("u1", "en_US")}

\* the answer to the token request: raised, or a body with or without
\* accessToken and errcode
TokenResponses ==
    [raised : {FALSE}, accessToken : {"absent", "T1", "T2"}, errcode : {"absent", "0", "1"}]
    \cup {[raised |-> TRUE, accessToken |-> "absent", errcode |-> "absent"]}

\* the answer to the user request: raised, or a body with errcode, with or
\* without result, whose dept_id_list is empty or not
UserResponses ==
    [raised : {FALSE}, errcode : {"absent", "0", "1"}, result : {"absent", "Jane", "Joan"},
     dept_id_list : BOOLEAN]
    \cup {[raised |-> TRUE, errcode |-> "absent", result |-> "absent", dept_id_list |-> FALSE]}

\* `if cached_info:` for a user info or None
TruthyInfo(x) == x \notin {NoValue, "{}"}

\* lines 294-310: the token from the cache, or the token request is sent
token_start(cl, c) ==
    LET r == get(cl._access_token_cache, "access_token", monotonic)
        looked == [cl EXCEPT !._access_token_cache = r.m]
    IN IF Truthy(r.ret)
       THEN [cl |-> looked, token |-> r.ret]
       ELSE [cl |-> [looked EXCEPT !.calls[c].pc = "exchange", !.calls[c].exchanges = @ + 1],
             token |-> NoValue]

\* a faulty variant: a response without accessToken is stored as the token
token_done_stores_failure(cl, response) ==
    IF response.raised
    THEN [cl |-> cl, token |-> NoValue]
    ELSE [cl |-> [cl EXCEPT !._access_token_cache =
                     set(@, "access_token", response.accessToken, monotonic)],
          token |-> IF response.accessToken = "absent" THEN NoValue ELSE response.accessToken]

\* lines 310-329: the token of the response is stored and returned; a
\* response without accessToken raises (Exception at 324 when errcode is
\* not 0, KeyError at 326 when it is)
token_done(cl, response) ==
    IF response.raised \/ response.accessToken = "absent"
    THEN [cl |-> cl, token |-> NoValue]
    ELSE [cl |-> [cl EXCEPT !._access_token_cache =
                     set(@, "access_token", response.accessToken, monotonic)],
          token |-> response.accessToken]

\* _get_access_token is called and runs to its first await or to its return
_get_access_token(cl, c) ==
    LET r == token_start([cl EXCEPT !.calls[c] = [IdleCall EXCEPT !.fn = "token"]], c)
    IN IF r.token = NoValue THEN r.cl
       ELSE [r.cl EXCEPT !.calls[c].pc = "returned", !.calls[c].ret = r.token]

\* lines 143-152 of get_user_info: the token, then the user request is sent
user_request(cl, c) ==
    LET r == token_start(cl, c)
    IN IF r.token = NoValue THEN r.cl
       ELSE [r.cl EXCEPT !.calls[c].pc = "user_get", !.calls[c].lookups = @ + 1]

\* lines 132-152: the user info from the cache, or the requests begin
get_user_info(cl, c, key) ==
    LET r == get(cl._user_info_cache, key, monotonic)
        looked == [cl EXCEPT !._user_info_cache = r.m,
                             !.calls[c] = [IdleCall EXCEPT !.fn = "user", !.key = key]]
    IN IF TruthyInfo(r.ret)
       THEN [looked EXCEPT !.calls[c].pc = "returned", !.calls[c].ret = r.ret]
       ELSE user_request(looked, c)

\* the token request of call c is answered: _get_access_token returns or
\* raises; inside get_user_info (line 143, outside its try) the exception
\* leaves get_user_info, a token lets it send the user request
exchange_done(cl, c, response) ==
    LET r == token_done(cl, response)
    IN IF r.token = NoValue
       THEN [r.cl EXCEPT !.calls[c].pc = "raised", !.calls[c].failed = TRUE]
       ELSE IF cl.calls[c].fn = "token"
       THEN [r.cl EXCEPT !.calls[c].pc = "returned", !.calls[c].ret = r.token]
       ELSE [r.cl EXCEPT !.calls[c].pc = "user_get", !.calls[c].lookups = @ + 1]

\* lines 171-175: the user info is stored and returned
user_done(cl, c, user_info) ==
    [cl EXCEPT !._user_info_cache = set(@, cl.calls[c].key, user_info, monotonic),
               !.calls[c].pc = "returned", !.calls[c].ret = user_info]

\* lines 152-179: the user request is answered
user_response(cl, c, response) ==
    IF response.raised \/ response.errcode # "0"
    THEN [cl EXCEPT !.calls[c].pc = "returned", !.calls[c].ret = "{}",
                    !.calls[c].failed = TRUE]
    ELSE LET user_info == IF response.result = "absent" THEN "{}" ELSE response.result
         IN IF TruthyInfo(user_info) /\ response.dept_id_list
            THEN [cl EXCEPT !.calls[c].pc = "depts", !.calls[c].user_info = user_info]
            ELSE user_done(cl, c, user_info)

\* history: the token and the user infos the remote service has issued and
\* the client had to store, with the time of the store
NoIssued == [token |-> [value |-> NoValue, time |-> 0],
             users |-> [key \in UserKeys |-> [value |-> NoValue, time |-> 0]]]

SpreadsheetClient ==
    [_access_token_cache |-> CacheManager, _user_info_cache |-> CacheManager,
     calls |-> [c \in Calls |-> IdleCall], issued |-> NoIssued,
     response |-> NoResponse, failed |-> NoFetch]

TokenCall(c) ==
    /\ client.calls[c].pc = "idle"
    /\ client' = _get_access_token(client, c)
    /\ UNCHANGED <<form, children, handler_vars, reload_vars, cache_vars>>

UserCall(c, key) ==
    /\ client.calls[c].pc = "idle"
    /\ client' = get_user_info(client, c, key)
    /\ UNCHANGED <<form, children, handler_vars, reload_vars, cache_vars>>

ExchangeReturn(c, response) ==
    /\ client.calls[c].pc = "exchange"
    /\ client' = [exchange_done(client, c, response) EXCEPT
                     !.calls[c].token_answer =
                         IF response.raised THEN "absent" ELSE response.accessToken,
                     !.issued.token = IF response.raised \/ response.accessToken = "absent"
                                      THEN @
                                      ELSE [value |-> response.accessToken, time |-> monotonic]]
    /\ UNCHANGED <<form, children, handler_vars, reload_vars, cache_vars>>

UserReturn(c, response) ==
    /\ client.calls[c].pc = "user_get"
    /\ LET cl == user_response(client, c, response)
       IN client' = [cl EXCEPT !.calls[c].user_answer =
                        IF response.raised \/ response.errcode # "0"
                        THEN "error" ELSE response.result,
                               !.issued.users[client.calls[c].key] =
                        IF cl.calls[c].pc = "returned" /\ ~cl.calls[c].failed
                        THEN [value |-> cl.calls[c].ret, time |-> monotonic] ELSE @]
    /\ UNCHANGED <<form, children, handler_vars, reload_vars, cache_vars>>

\* the department lookups of call c are over (_get_dept_info never raises)
DeptsReturn(c) ==
    /\ client.calls[c].pc = "depts"
    /\ LET user_info == client.calls[c].user_info \o "+depts"
       IN client' = [user_done(client, c, user_info) EXCEPT
                        !.issued.users[client.calls[c].key] =
                            [value |-> user_info, time |-> monotonic]]
    /\ UNCHANGED <<form, children, handler_vars, reload_vars, cache_vars>>

\* the response to the update or insert that action k awaits arrives
WriteReturn(t, k, response) ==
    /\ tasks[t].pc = "actions"
    /\ k \in 1..Len(tasks[t].actions)
    /\ tasks[t].astate[k] \in {"update", "insert"}
    /\ LET out == IF tasks[t].astate[k] = "update" THEN update_records(response)
                  ELSE process_add_actions(response)
       IN tasks' = [tasks EXCEPT ![t] =
                       resume_actions(after_call(@, k, out, handler_config), k, handler_config)]
    /\ client' = [client EXCEPT !.response =
                     [flip |-> ~@.flip, call |-> tasks[t].astate[k], t |-> t, k |-> k,
                      response |-> response]]
    /\ UNCHANGED <<form, children, now, handler_config, processed_events, last_mark, budget,
                   reload_vars, cache_vars>>

\* the find of action k comes back: a record, none, or a raised error
FindReturn(t, k, out) ==
    /\ tasks[t].pc = "actions"
    /\ k \in 1..Len(tasks[t].actions)
    /\ tasks[t].astate[k] = "find"
    /\ CallReturn(t, k, out)

(***************************************************************************)
(* Configurations of the handler                                           *)
(***************************************************************************)
ActionKinds ==
    {Action("update_spreadsheet", TRUE, TRUE),
     Action("update_spreadsheet", FALSE, TRUE),
     Action("update_spreadsheet", FALSE, FALSE),
     Action("webhook", FALSE, FALSE),
     Action("shell", FALSE, FALSE),
     Action("python", FALSE, FALSE),
     Action("email", FALSE, FALSE)}

ActionLists == UNION {[1..n -> ActionKinds] : n \in 0..MaxActions}

\* approval P1 and change type 4 are enabled rules; P2 and change type 1 are
\* disabled rules; PX and change type 8 have no rule (a change type is written
\* as the string of its integer code)
HandlerConfig(actions, retry_times) ==
    Config(<<Approval("P1", TRUE, actions), Approval("P2", FALSE, actions)>>,
           <<HrmEvent("4", TRUE, actions), HrmEvent("1", FALSE, actions)>>,
           Execution(300, retry_times, 5))

InitState(cfgs, events, ticks, bursts, calls) ==
    /\ now = 0
    /\ handler_config \in cfgs
    /\ processed_events = EmptyDict
    /\ tasks = [t \in Tasks |-> IdleTask]
    /\ last_mark = EmptyFn
    /\ budget = [events |-> events, ticks |-> ticks, bursts |-> bursts]
    /\ file = [content |-> File(handler_config), mtime |-> 0]
    /\ app = Application(load_config(file.content))
    /\ watcher = ConfigWatcher
    /\ hist = NoHistory
    /\ CacheInit
    /\ form \in calls
    /\ client = SpreadsheetClient
    /\ children = {}

InitHandler(cfgs, events, ticks, bursts) == InitState(cfgs, events, ticks, bursts, {NoCall})

\* the dispatcher under every rule of up to MaxActions actions
InitDispatch ==
    InitHandler({HandlerConfig(as, n) : as \in ActionLists, n \in 0..MaxRetryTimes}, Events, 0, 0)

\* one process() invocation
NextDispatch ==
    \/ \E e \in Events : Deliver(1, e)
    \/ \E out \in {"detail", "error_response", "raise"} : DetailReturn(1, out)
    \/ \E out \in {"found", "empty", "raise"} : UserInfoReturn(1, out)
    \/ \E k \in 1..MaxActions, out \in {"ok", "fail", "raise"} : CallReturn(1, k, out)
    \/ \E k \in 1..MaxActions : SleepDone(1, k)

SpecDispatch == InitDispatch /\ [][NextDispatch]_vars

\* events that reach the dedup gate
GateEvents ==
    {e \in Events :
        /\ e.search_value = NoValue
        /\ \/ e.result = "agree" /\ e.processCode = "P1" /\ e.processInstanceId # NoValue
           \/ e.staffId # NoValue /\ e.changeType = "4"}

\* two deliveries, a clock, and a rule of one insert action that is not retried
Redelivered == {1, 2}

InitRedeliver ==
    InitHandler({HandlerConfig(<<Action("update_spreadsheet", FALSE, TRUE)>>, 0)},
                GateEvents, MaxTicks, 0)

NextRedeliver ==
    \/ \E t \in Redelivered, e \in Events : Deliver(t, e)
    \/ \E t \in Redelivered, out \in {"detail", "error_response", "raise"} : DetailReturn(t, out)
    \/ \E t \in Redelivered, out \in {"found", "empty", "raise"} : UserInfoReturn(t, out)
    \/ \E t \in Redelivered, k \in 1..MaxActions, out \in {"ok", "fail", "raise"} : CallReturn(t, k, out)
    \/ \E d \in TickSteps : Tick(d)

SpecRedeliver == InitRedeliver /\ [][NextRedeliver]_vars

\* one approval identity and one personnel identity
DedupEvents ==
    {e \in GateEvents : e.event_type # "bpms_instance_change" /\ e.processInstanceId # "i2"}

\* the dedup set over time: concurrent deliveries, a clock and bursts of other
\* events, under rules that configure no action
InitDedup ==
    InitHandler({HandlerConfig(<<>>, 0)}, DedupEvents, MaxTicks, MaxBursts)

NextDedup ==
    \/ \E t \in Tasks, e \in Events : Deliver(t, e)
    \/ \E t \in Tasks, out \in {"detail", "error_response", "raise"} : DetailReturn(t, out)
    \/ \E t \in Tasks, out \in {"found", "empty", "raise"} : UserInfoReturn(t, out)
    \/ \E d \in TickSteps : Tick(d)
    \/ DeliverBurst

SpecDedup == InitDedup /\ [][NextDedup]_vars

(***************************************************************************)
(* The application under edits of its configuration file                   *)
(***************************************************************************)
BaseConfig == HandlerConfig(<<Action("update_spreadsheet", FALSE, TRUE)>>, 2)

\* only the execution policy differs
ExecutionChanged == [BaseConfig EXCEPT !.execution.retry_times = 0]

\* the same rules, listed in another order
Reordered ==
    [BaseConfig EXCEPT !.approvals = <<BaseConfig.approvals[2], BaseConfig.approvals[1]>>,
                       !.hrm_events = <<BaseConfig.hrm_events[2], BaseConfig.hrm_events[1]>>]

\* an approval rule differs: P1 is disabled, and it is the only rule
ApprovalsChanged ==
    [BaseConfig EXCEPT !.approvals = <<Approval("P1", FALSE, BaseConfig.approvals[1].actions)>>]

\* two approval rules carry the template_id P1: the enabled rule of
\* BaseConfig, and after it the disabled rule of ApprovalsChanged
Shadowing ==
    [BaseConfig EXCEPT !.approvals = <<BaseConfig.approvals[1], ApprovalsChanged.approvals[1]>>]

\* a personnel rule differs
HrmEventsChanged == [BaseConfig EXCEPT !.hrm_events[1].enabled = FALSE]

ConfigFiles ==
    {File(c) : c \in {BaseConfig, ExecutionChanged, Reordered, ApprovalsChanged,
                      HrmEventsChanged, Shadowing}}
        \cup {Broken(BaseConfig)}

InitReload == InitHandler({BaseConfig}, {}, 0, 0)

NextReload ==
    \/ AppStart
    \/ StartupFailedEventsReturn
    \/ WatchLoopBegin
    \/ \E content \in ConfigFiles : ModifyFile(content)
    \/ Poll
    \/ \E i \in ReloadTasks : ReloadTaskRun(i)
    \/ \E i \in ReloadTasks : FailedEventsReturn(i)
    \/ StreamEnds
    \/ WatchTaskCancelled
    \/ StopAfterWatch
    \/ \E i \in ReloadTasks : ReloadTaskCancelled(i)
    \/ StopAfterReload
    \/ CloseDone

SpecReload == InitReload /\ [][NextReload]_vars

\* the loop runs every task that is ready, and the remote call a reload
\* callback awaits comes back
SpecReloadFair ==
    /\ SpecReload
    /\ WF_vars(\E i \in ReloadTasks : ReloadTaskRun(i))
    /\ WF_vars(\E i \in ReloadTasks : FailedEventsReturn(i))

(***************************************************************************)
(* The started client delivers events while the configuration file is      *)
(* edited and reloaded                                                     *)
(***************************************************************************)
\* approval events of one process instance of template P1
LiveEvents ==
    {e \in GateEvents : /\ e.event_type = "bpms_task_change"
                         /\ e.processInstanceId = "i1"}

\* edits that change the execution policy only, and the approval rules
LiveFiles == {File(ExecutionChanged), File(ApprovalsChanged)}

\* the running client calls process() of its handler
LiveDeliver(t, e) ==
    /\ app.pc = "streaming"
    /\ Deliver(t, e)

\* an edit of the file while the application runs
LiveModifyFile(content) ==
    /\ app.pc # "constructed"
    /\ file.mtime < MaxModifications - 1
    /\ ModifyFile(content)

\* time passes after an event was marked as processed
LiveTick(d) ==
    /\ last_mark # EmptyFn
    /\ Tick(d)

InitLive == InitHandler({BaseConfig}, LiveEvents, MaxTicks - 1, 0)

NextLive ==
    \/ AppStart
    \/ StartupFailedEventsReturn
    \/ WatchLoopBegin
    \/ \E content \in LiveFiles : LiveModifyFile(content)
    \/ Poll
    \/ \E i \in ReloadTasks : ReloadTaskRun(i)
    \/ \E i \in ReloadTasks : FailedEventsReturn(i)
    \/ \E t \in Redelivered, e \in Events : LiveDeliver(t, e)
    \/ \E t \in Redelivered : DetailReturn(t, "detail")
    \/ \E t \in Redelivered, k \in 1..MaxActions, out \in {"ok", "fail"} : CallReturn(t, k, out)
    \/ \E t \in Redelivered, k \in 1..MaxActions : SleepDone(t, k)
    \/ LiveTick(EVENT_DEDUP_TTL - 1)

SpecLive == InitLive /\ [][NextLive]_vars

\* ---- events of every kind, two deliveries, one insert action, no retry ----
EventsBudget ==
    {e \in Events : /\ e.search_value = NoValue
                    /\ e.processInstanceId # "i2"
                    /\ e.event_type # "bpms_instance_change"}

InitEvents ==
    InitHandler({HandlerConfig(<<Action("update_spreadsheet", FALSE, TRUE)>>, 0)},
                EventsBudget, 0, 0)

NextEvents ==
    \/ \E t \in Redelivered, e \in Events : Deliver(t, e)
    \/ \E t \in Redelivered, out \in {"detail", "raise", "bad_form"} : DetailReturn(t, out)
    \/ \E t \in Redelivered, out \in {"found", "raise"} : UserInfoReturn(t, out)
    \/ \E t \in Redelivered, k \in 1..MaxActions, out \in {"ok", "raise"} : CallReturn(t, k, out)

SpecEvents == InitEvents /\ [][NextEvents]_vars

\* ---- the cache: every sequence of up to MaxCacheOps calls, as time passes ----
InitCache == InitHandler({HandlerConfig(<<>>, 0)}, {}, 0, 0)

NextCache ==
    \/ \E key \in CacheKeys : Get(key)
    \/ \E key \in CacheKeys, value \in CacheValues : Set(key, value)
    \/ \E key \in CacheKeys : Delete(key)
    \/ Clear
    \/ Size
    \/ CacheTick

SpecCache == InitCache /\ [][NextCache]_vars

\* ---- the functions on form data, each on every input within the bounds ----
InitForm == InitState({HandlerConfig(<<>>, 0)}, {}, 0, 0, FormCalls)

NextForm ==
    \/ BuildHrmForm
    \/ ExtractFormData
    \/ ReplacePlaceholders

SpecForm == InitForm /\ [][NextForm]_vars

\* ---- one process() invocation whose remote calls never raise: a find
\* returns a record ("ok") or none ("fail"), a write succeeds or fails ----
NextLookup ==
    \/ \E e \in Events : Deliver(1, e)
    \/ \E out \in {"detail", "error_response"} : DetailReturn(1, out)
    \/ \E out \in {"found", "empty"} : UserInfoReturn(1, out)
    \/ \E k \in 1..MaxActions, out \in {"ok", "fail"} : CallReturn(1, k, out)
    \/ \E k \in 1..MaxActions : SleepDone(1, k)

SpecLookup == InitDispatch /\ [][NextLookup]_vars

\* ---- one invocation with one record action, every response to its writes ----
InitWrite ==
    InitHandler({HandlerConfig(<<a>>, n) :
                    a \in {Action("update_spreadsheet", TRUE, TRUE),
                           Action("update_spreadsheet", FALSE, TRUE)},
                    n \in 0..MaxRetryTimes},
                {e \in Events : /\ e.search_value = "v"
                                /\ \/ /\ e.result = "agree" /\ e.processCode = "P1"
                                      /\ e.processInstanceId = "i1"
                                   \/ e.staffId = "s1" /\ e.changeType = "4"}, 0, 0)

NextWrite ==
    \/ \E e \in Events : Deliver(1, e)
    \/ DetailReturn(1, "detail")
    \/ UserInfoReturn(1, "found")
    \/ \E out \in {"ok", "fail", "raise"} : FindReturn(1, 1, out)
    \/ \E response \in WriteResponses : WriteReturn(1, 1, response)
    \/ SleepDone(1, 1)

SpecWrite == InitWrite /\ [][NextWrite]_vars

\* ---- shell and python actions whose child exits or runs into the timeout ----
\* The action objects are the ones _execute_shell and _execute_python read:
\* they carry the command or the script (as in tests/test_actions.py:84-92
\* and 161-164).
ChildActions ==
    {[type |-> "shell", find_by |-> FALSE, updates |-> FALSE, command |-> "echo"],
     [type |-> "python", find_by |-> FALSE, updates |-> FALSE, script |-> "job.py"]}

InitChildren ==
    InitHandler({HandlerConfig(actions, 0) :
                    actions \in UNION {[1..n -> ChildActions] : n \in 1..MaxActions}},
                {e \in Events : /\ e.search_value = NoValue
                                /\ \/ /\ e.result = "agree" /\ e.processCode = "P1"
                                      /\ e.processInstanceId = "i1"
                                   \/ e.staffId = "s1" /\ e.changeType = "4"}, 0, 0)

NextChildren ==
    \/ \E t \in Redelivered, e \in Events : Deliver(t, e)
    \/ \E t \in Redelivered : DetailReturn(t, "detail")
    \/ \E t \in Redelivered : UserInfoReturn(t, "found")
    \/ \E t \in Redelivered, k \in 1..MaxActions : CallReturn(t, k, "ok")
    \/ \E t \in Redelivered, k \in 1..MaxActions : Timeout(t, k)
    \/ \E t \in Redelivered, k \in 1..MaxActions : ChildExit(<<t, k>>)

SpecChildren == InitChildren /\ [][NextChildren]_vars

\* ---- webhook, shell and python actions under every retry policy ----
\* The action objects carry the url, the command or the script.
HookActions ==
    {[type |-> "webhook", find_by |-> FALSE, updates |-> FALSE, url |-> "http://hook"]}
        \cup ChildActions

InitHooks ==
    InitHandler({HandlerConfig(actions, n) :
                    actions \in UNION {[1..m -> HookActions] : m \in 1..MaxActions},
                    n \in 0..MaxRetryTimes},
                {e \in Events : /\ e.search_value = NoValue
                                /\ \/ /\ e.result = "agree" /\ e.processCode = "P1"
                                      /\ e.processInstanceId = "i1"
                                   \/ e.staffId = "s1" /\ e.changeType = "4"}, 0, 0)

\* the request or the child ends well, with a status >= 400 or a non-zero
\* exit code, or with an error; or it runs into its timeout
NextHooks ==
    \/ \E e \in Events : Deliver(1, e)
    \/ DetailReturn(1, "detail")
    \/ UserInfoReturn(1, "found")
    \/ \E k \in 1..MaxActions, out \in {"ok", "status", "raise"} : CallReturn(1, k, out)
    \/ \E k \in 1..MaxActions : Timeout(1, k)

SpecHooks == InitHooks /\ [][NextHooks]_vars

\* ---- startup and reloads, with the answers of get_failed_events ----
FailedLists == {<<>>, <<"e1">>, <<"e1", "e2">>}

FailedEventsResults ==
    {FailedEvents(TRUE, <<>>)} \cup {FailedEvents(FALSE, l) : l \in FailedLists}

ReplayFiles == {File(ExecutionChanged), File(ApprovalsChanged), Broken(BaseConfig)}

NextReplay ==
    \/ AppStart
    \/ \E result \in FailedEventsResults : StartupFailedEvents(result)
    \/ WatchLoopBegin
    \/ \E content \in ReplayFiles : ModifyFile(content)
    \/ Poll
    \/ \E i \in ReloadTasks : ReloadTaskRun(i)
    \/ \E i \in ReloadTasks, result \in FailedEventsResults : ReloadFailedEvents(i, result)

SpecReplay == InitReload /\ [][NextReplay]_vars

\* ---- NumCalls calls of _get_access_token and get_user_info, as time passes ----
NextClient ==
    \/ \E c \in Calls : TokenCall(c)
    \/ \E c \in Calls, key \in UserKeys : UserCall(c, key)
    \/ \E c \in Calls, response \in TokenResponses : ExchangeReturn(c, response)
    \/ \E c \in Calls, response \in UserResponses : UserReturn(c, response)
    \/ \E c \in Calls : DeptsReturn(c)
    \/ CacheTick

SpecClient == InitCache /\ [][NextClient]_vars

\* ---- NumCalls calls of _get_access_token alone ----
NextToken ==
    \/ \E c \in Calls : TokenCall(c)
    \/ \E c \in Calls, response \in TokenResponses : ExchangeReturn(c, response)
    \/ CacheTick

SpecToken == InitCache /\ [][NextToken]_vars

(***************************************************************************)
(* Claims about the event handler                                          *)
(***************************************************************************)
IsRecordAction(a) == a.type = "update_spreadsheet" /\ a.updates

InActions(tk) == tk.pc \in {"actions", "done"} /\ Len(tk.astate) = Len(tk.actions)

\* C1: an approval event whose processInstanceId was marked as processed less
\* than EVENT_DEDUP_TTL seconds before its delivery makes no downstream call
\* (no detail fetch, no record, webhook, shell or script call) and process()
\* returns STATUS_OK for it at once.
C1_DuplicateMakesNoCall ==
    \A t \in Tasks :
        (tasks[t].dup_expected /\ tasks[t].key[1] = "approval")
            => /\ tasks[t].issued = {}
               /\ tasks[t].pc = "done"
               /\ tasks[t].ack = STATUS_OK

\* a second delivery 299 s after the first, which fetched the detail
C1_Witness ==
    /\ tasks[1].gate = "fresh" /\ tasks[1].key = approval_key("i1")
    /\ "detail" \in tasks[1].issued
    /\ tasks[2].gate = "duplicate" /\ tasks[2].key = approval_key("i1")
    /\ tasks[2].dup_expected
    /\ now - last_mark[approval_key("i1")] = EVENT_DEDUP_TTL - 1

\* C2: for every event key marked at time m, _is_event_processed answers true
\* at every time before m + EVENT_DEDUP_TTL and false from then on.
C2_WindowIsExact ==
    \A k \in DOMAIN last_mark :
        _is_event_processed(processed_events, k, now)
            <=> (now - last_mark[k] < EVENT_DEDUP_TTL)

\* a key exactly EVENT_DEDUP_TTL after its mark, after a sweep has run
C2_Witness ==
    /\ \E k \in DOMAIN last_mark :
          /\ now - last_mark[k] = EVENT_DEDUP_TTL
          /\ ~_is_event_processed(processed_events, k, now)
    /\ \E k \in DOMAIN last_mark : _is_event_processed(processed_events, k, now)
    /\ budget.bursts = 0

\* C3: a record action under retry_times = n makes as many attempts as the
\* index of its first successful attempt, or n + 1 when none of them succeeds
\* (by a false result or by raising); a retry sleep separates each two
\* consecutive attempts and there is no other sleep.
C3_AttemptsAndSleeps ==
    \A t \in Tasks : InActions(tasks[t]) =>
        \A k \in 1..Len(tasks[t].actions) :
            LET tk == tasks[t]
                n == handler_config.execution.retry_times
            IN IF IsRecordAction(tk.actions[k])
               THEN /\ tk.astate[k] = "done" =>
                          /\ tk.attempts[k] = (IF tk.first_ok[k] > 0 THEN tk.first_ok[k] ELSE n + 1)
                          /\ tk.sleeps[k] = tk.attempts[k] - 1
                    /\ tk.astate[k] \in {"find", "update", "insert"} =>
                          /\ tk.first_ok[k] = 0
                          /\ tk.attempts[k] <= n + 1
                          /\ tk.sleeps[k] = tk.attempts[k] - 1
                    /\ tk.astate[k] = "sleep" =>
                          /\ tk.first_ok[k] = 0
                          /\ tk.attempts[k] <= n
                          /\ tk.sleeps[k] = tk.attempts[k]
               ELSE tk.sleeps[k] = 0 /\ tk.attempts[k] = 0 /\ tk.astate[k] # "sleep"

\* retry_times = 2: an action that raised three times, and one that succeeded
\* at its second attempt
C3_Witness ==
    /\ handler_config.execution.retry_times = 2
    /\ Len(tasks[1].astate) = 2
    /\ tasks[1].astate[1] = "done" /\ tasks[1].result[1] = "raised"
    /\ tasks[1].attempts[1] = 3 /\ tasks[1].sleeps[1] = 2
    /\ tasks[1].astate[2] = "done" /\ tasks[1].first_ok[2] = 2
    /\ tasks[1].attempts[2] = 2 /\ tasks[1].sleeps[2] = 1

\* C4: _execute_actions dispatches every action of the list exactly once,
\* whatever the outcome of the actions before it (success, retries exhausted,
\* a raised exception, an unknown type).
C4_EveryActionDispatchedOnce ==
    \A t \in Tasks : InActions(tasks[t]) =>
        /\ \A k \in 1..Len(tasks[t].actions) : tasks[t].dispatched[k] <= 1
        /\ tasks[t].pc = "done" =>
              \A k \in 1..Len(tasks[t].actions) : tasks[t].dispatched[k] = 1

\* the first action raised and the second was dispatched all the same
C4_Witness ==
    /\ tasks[1].pc = "done" /\ Len(tasks[1].astate) = 2
    /\ tasks[1].result[1] = "raised"
    /\ tasks[1].dispatched[2] = 1 /\ tasks[1].result[2] = "exhausted"

CallbackStarts == hist.callback_starts' > hist.callback_starts

\* a step in which the watch loop detects a modification
Detection ==
    /\ watcher._task.status = "sleeping"
    /\ watcher._last_mtime' > watcher._last_mtime

LiveReloadTasks == {i \in ReloadTasks : Live(watcher.reload_tasks[i])}

InCallback == {i \in ReloadTasks : watcher.reload_tasks[i].status = "callback"}

ValidConfigs == {load_config(content) : content \in {c \in ConfigFiles : Loads(c)}}

StopCalled == watcher.stop_pc # "none"

StopReturned == watcher.stop_pc = "returned"

\* no two approval rules share a template_id and no two personnel rules share
\* a change_type
UniqueKeys(cfg) ==
    /\ \A i, j \in 1..Len(cfg.approvals) :
           cfg.approvals[i].template_id = cfg.approvals[j].template_id => i = j
    /\ \A i, j \in 1..Len(cfg.hrm_events) :
           cfg.hrm_events[i].change_type = cfg.hrm_events[j].change_type => i = j

C7_FailedReloadKeepsSnapshot ==
    /\ [](app.config \in ValidConfigs)
    /\ [][(CallbackStarts /\ ~Loads(file.content))
              => /\ app.config' = app.config
                 /\ app.stream_client' = app.stream_client
                 /\ app.event_handler' = app.event_handler
                 /\ app.bound_config' = app.bound_config
                 /\ hist.last_outcome' = "raised"]_vars

\* a reload failed after an earlier reload had swapped the snapshot
C7_Witness ==
    /\ hist.last_outcome = "raised"
    /\ ~Loads(file.content)
    /\ app.config # BaseConfig
    /\ app._stream_started

\* C8: at most one reload task is alive, hence at most one invocation of the
\* reload callback executes; a detection while a reload task is alive sets
\* _reload_pending and creates no task, a detection while none is alive
\* creates exactly one.
C8_OneReloadAtATime ==
    /\ [](Cardinality(LiveReloadTasks) <= 1 /\ Cardinality(InCallback) <= 1)
    /\ [][Detection =>
             IF LiveReloadTasks # {}
             THEN /\ watcher.reload_tasks' = watcher.reload_tasks
                  /\ watcher._reload_pending'
             ELSE /\ Len(watcher.reload_tasks') = Len(watcher.reload_tasks) + 1
                  /\ Cardinality(LiveReloadTasks') = 1]_vars

\* a second task, created after the first was over, is in the callback and a
\* detection has found it there
C8_Witness ==
    /\ Len(watcher.reload_tasks) = 2
    /\ watcher.reload_tasks[1].status = "done"
    /\ watcher.reload_tasks[2].status = "callback"
    /\ watcher._reload_pending

\* C9: while the watcher is not stopped and reload callbacks terminate, every
\* detection is followed by the start of a reload callback invocation.
C9_NoDetectionLost ==
    hist.unserved ~> (~hist.unserved \/ StopCalled)

\* one task ran the callback twice, a detection being pending when its first
\* invocation was over, and the invocations raised
C9_Witness ==
    /\ Len(watcher.reload_tasks) = 1
    /\ watcher.reload_tasks[1].status = "done"
    /\ hist.callback_starts = 2
    /\ hist.last_outcome = "raised"
    /\ ~hist.unserved
    /\ ~StopCalled

\* C10: once stop() has returned the watch task and every reload task are
\* over; from then on no modification is detected and no reload callback
\* invocation begins.
C10_StopAwaitsTasks ==
    /\ [](StopReturned => ~Live(watcher._task) /\ LiveReloadTasks = {})
    /\ [][StopReturned =>
             /\ watcher._last_mtime' = watcher._last_mtime
             /\ watcher.reload_tasks' = watcher.reload_tasks
             /\ hist.callback_starts' = hist.callback_starts]_vars

\* stop() has returned after it cancelled a reload task inside the callback
C10_Witness ==
    /\ StopReturned
    /\ \E i \in ReloadTasks :
          /\ watcher.reload_tasks[i].status = "cancelled"
          /\ watcher.reload_tasks[i].cancelling
    /\ file.mtime > watcher._last_mtime

(***************************************************************************)
(* Claims about events delivered while the configuration is reloaded       *)
(***************************************************************************)
\* process() invocation t is between its dedup gate and its return
Dispatching(t) == tasks[t].pc \in {"detail", "userinfo", "actions"}

\* C11: a reload that begins while a handler is processing an event, with or
\* without a rebuild of the stream client, changes neither the action list
\* that invocation executes nor the execution policy (timeout, retry_times,
\* retry_interval) its handler reads.
C11_DispatchKeepsItsSnapshot ==
    [][\A t \in Tasks :
          (Dispatching(t) /\ CallbackStarts)
              => /\ tasks[t].actions' = tasks[t].actions
                 /\ handler_config.execution' = handler_config.execution]_vars

\* an invocation is in a retry sleep while a reload that rebuilt the client
\* has swapped the snapshot and still runs
C11_Witness ==
    /\ tasks[1].pc = "actions" /\ tasks[1].astate[1] = "sleep"
    /\ app.config = ApprovalsChanged
    /\ app.stream_client # app.started_client
    /\ InCallback # {}

\* C12: an event identity that was marked as processed before a reload began
\* is classified as a duplicate when it is delivered again after the reload
\* and within EVENT_DEDUP_TTL of the mark, also when the reload rebuilt the
\* stream client and the event handler: nothing is processed twice.
C12_NoDoubleProcessingAcrossReload ==
    \A t \in Tasks :
        (tasks[t].dup_expected /\ tasks[t].reloads > 0)
            => /\ tasks[t].gate = "duplicate"
               /\ tasks[t].issued = {}
               /\ tasks[t].ack = STATUS_OK

\* the first delivery came before any reload, the second after a reload that
\* rebuilt the client, 299 s after the first
C12_Witness ==
    /\ tasks[1].gate = "fresh" /\ tasks[1].reloads = 0
    /\ tasks[2].dup_expected /\ tasks[2].reloads > 0
    /\ tasks[2].gate = "duplicate"
    /\ app.stream_client # app.started_client
    /\ now - last_mark[tasks[2].key] = EVENT_DEDUP_TTL - 1

\* the last reload loaded its file and is over, and no other has begun
Reloaded == hist.last_reload.loaded /\ hist.last_reload.started /\ InCallback = {}

\* a step in which process is called with an event
Delivered(t) == tasks[t].pc = "idle" /\ tasks'[t].pc # "idle"

\* C13: once a reload that changed the rule set is over, every event that is
\* delivered is matched against the rules of the new snapshot: the invocation
\* does what process does with some event under Application.config.
C13_EventsSeeNewRules ==
    [][\A t \in Tasks :
          (Reloaded /\ ~hist.last_reload.same_rules /\ Delivered(t))
              => \E e \in Events :
                    tasks'[t] = process(Stamped(e), e, processed_events, last_mark,
                                        app.config, now).tk]_vars

\* an invocation delivered after the last reload was over
SinceLastReload(tk) ==
    tk.pc # "idle" /\ tk.settled /\ tk.reloads = hist.callback_starts

\* C14: once a reload in which only the execution policy differs is over, the
\* new snapshot is active, the client was not rebuilt, and every event
\* delivered afterwards is dispatched under the retry policy of the new
\* snapshot: at most retry_times + 1 attempts, all of them when none succeeds.
C14_EventsSeeNewPolicy ==
    (Reloaded /\ hist.last_reload.same_rules /\ ~hist.last_reload.same_config)
        => /\ app.stream_client = hist.last_reload.client_before
           /\ \A t \in Tasks : (SinceLastReload(tasks[t]) /\ InActions(tasks[t])) =>
                 \A k \in 1..Len(tasks[t].actions) :
                     LET tk == tasks[t]
                         n == app.config.execution.retry_times
                     IN IsRecordAction(tk.actions[k]) =>
                           /\ tk.attempts[k] <= n + 1
                           /\ (tk.astate[k] = "done" /\ tk.first_ok[k] = 0)
                                  => tk.attempts[k] = n + 1

\* C15: a get of a key returns the value of the last set of the key, from
\* right after the set on, as long as less than ttl has passed since that set
\* and no delete, clear or capacity eviction has removed the key.
C15_GetReturnsWhatWasSet ==
    (cache_hist.op = "get" /\ cache_hist.key \in LiveKeys(cache_hist, cache_hist.time))
        => /\ cache_hist.ret = cache_hist.written[cache_hist.key].value
           /\ cache_hist.counted = "hit"

\* a value read again one second after it was overwritten, two seconds after
\* the key was first set
C15_Witness ==
    /\ cache_hist.op = "get" /\ cache_hist.ret = "w"
    /\ cache_hist.key \in LiveKeys(cache_hist, cache_hist.time)
    /\ cache_hist.time - cache_hist.written[cache_hist.key].time = ttl - 1
    /\ cache_hist.time = ttl
    /\ cache._hits = 2

\* C16: the cache never holds more than maxsize entries; a set of a key it
\* does not hold, when it holds maxsize unexpired entries, drops exactly one
\* of them, the least recently accessed by a get or a set, keeps the others
\* and stores the new entry.
C16_EvictsLeastRecentlyUsed ==
    /\ Cardinality(Keys(cache._cache)) <= maxsize
    /\ size(cache, monotonic).ret <= maxsize
    /\ (cache_hist.op = "set" /\ cache_hist.full_new)
          => /\ cache_hist.evicted = {cache_hist.lru}
             /\ cache_hist.key \in Keys(cache._cache)
             /\ cache._cache.data[cache_hist.key] = cache_hist.value

\* the entry dropped was written last and is the least recently accessed,
\* because the other one was read after it was written
C16_Witness ==
    /\ cache_hist.op = "set" /\ cache_hist.full_new
    /\ cache_hist.evicted = {cache_hist.lru}
    /\ \E other \in Keys(cache._cache) \ {cache_hist.key} :
          cache_hist.written[other].time < cache_hist.written[cache_hist.lru].time

\* C17: a get of an entry that has expired returns None and counts a miss,
\* and the entry is gone: size() does not count it and delete of its key
\* returns False.
C17_ExpiredEntryIsAMiss ==
    (cache_hist.op = "get" /\ cache_hist.on_expired)
        => /\ cache_hist.ret = NoValue
           /\ cache_hist.counted = "miss"
           /\ size(cache, monotonic).ret = Cardinality(LiveKeys(cache_hist, monotonic))
           /\ cache_hist.key \notin LiveKeys(cache_hist, monotonic)
           /\ ~delete(cache, cache_hist.key, monotonic).ret

\* the get comes exactly ttl after the set, with another entry unexpired
C17_Witness ==
    /\ cache_hist.op = "get" /\ cache_hist.on_expired
    /\ cache_hist.time - cache_hist.written[cache_hist.key].time = ttl
    /\ monotonic = cache_hist.time
    /\ size(cache, monotonic).ret = 1
    /\ cache_hist.key \in Keys(cache._cache)

\* an approval event whose result is not "agree" (a refusal, or no result)
NotApproved(e) ==
    /\ e.event_type \in {"bpms_task_change", "bpms_instance_change"}
    /\ e.data = "dict"
    /\ e.result # "agree"

\* C18: the delivery of an approval event whose result is not "agree" has no
\* effect: process returns STATUS_OK at once, having made no remote call and
\* chosen no action, and the dedup set is what it was, so that a later
\* "agree" event of the same instance is not taken for a duplicate.
C18_NotApprovedHasNoEffect ==
    [][\A t \in Tasks :
          (Delivered(t) /\ NotApproved(tasks'[t].event))
              => /\ tasks'[t] = Return(Stamped(tasks'[t].event), STATUS_OK)
                 /\ processed_events' = processed_events
                 /\ last_mark' = last_mark]_vars

\* a refusal of instance i1, then its approval, which passes the gate
C18_Witness ==
    /\ NotApproved(tasks[1].event) /\ tasks[1].event.result = "refuse"
    /\ tasks[1].event.processCode = "P1" /\ tasks[1].event.processInstanceId = "i1"
    /\ tasks[1].ack = STATUS_OK
    /\ tasks[2].event.result = "agree" /\ tasks[2].event.processInstanceId = "i1"
    /\ tasks[2].gate = "fresh" /\ "detail" \in tasks[2].issued

\* the event names a template id or a change type that an enabled rule has
EnabledRule(e, cfg) ==
    \/ /\ e.event_type \in {"bpms_task_change", "bpms_instance_change"}
       /\ \E i \in 1..Len(cfg.approvals) :
             cfg.approvals[i].enabled /\ cfg.approvals[i].template_id = e.processCode
    \/ /\ e.event_type = "hrm_mdm_user_change"
       /\ \E i \in 1..Len(cfg.hrm_events) :
             cfg.hrm_events[i].enabled /\ cfg.hrm_events[i].change_type = e.changeType

\* C19: an event that matches no enabled rule (its type is not handled, its
\* template id or change type has no rule, or the rule is disabled) runs no
\* action, makes no remote call and is acknowledged with STATUS_OK.
C19_UnmatchedEventIsSkipped ==
    \A t \in Tasks :
        (tasks[t].event.data = "dict" /\ ~EnabledRule(tasks[t].event, handler_config))
            => /\ tasks[t].pc = "done" /\ tasks[t].ack = STATUS_OK
               /\ tasks[t].actions = <<>> /\ tasks[t].dispatched = <<>>
               /\ tasks[t].issued = {}

\* an approved event of the disabled template P2 and a personnel event of the
\* disabled change type 1
C19_Witness ==
    /\ tasks[1].event.result = "agree" /\ tasks[1].event.processCode = "P2"
    /\ tasks[1].event.processInstanceId = "i1" /\ tasks[1].ack = STATUS_OK
    /\ tasks[2].event.changeType = "1" /\ tasks[2].event.staffId = "s1"
    /\ tasks[2].ack = STATUS_OK

\* C20: process never raises to the event source: an invocation ends with
\* one acknowledgement, which is final, STATUS_SYSTEM_EXCEPTION when an
\* exception reached the except clause of the handler and STATUS_OK otherwise.
C20_AlwaysAcknowledged ==
    /\ [](\A t \in Tasks :
             /\ tasks[t].pc # "raised"
             /\ tasks[t].pc = "done" <=> tasks[t].ack # NoValue
             /\ tasks[t].ack \in {NoValue, STATUS_OK, STATUS_SYSTEM_EXCEPTION}
             /\ tasks[t].ack = STATUS_SYSTEM_EXCEPTION <=> tasks[t].error # NoValue)
    /\ [][\A t \in Tasks : tasks[t].ack # NoValue => tasks'[t] = tasks[t]]_vars

\* an approval whose detail cannot be read as a form, and a personnel event
\* whose only action failed for good
C20_Witness ==
    /\ tasks[1].enrich = "bad_form" /\ tasks[1].ack = STATUS_SYSTEM_EXCEPTION
    /\ tasks[2].event.event_type = "hrm_mdm_user_change"
    /\ tasks[2].pc = "done" /\ Len(tasks[2].result) = 1
    /\ tasks[2].result[1] = "exhausted" /\ tasks[2].ack = STATUS_OK

C22_ComponentsTakePrecedence ==
    (form.fn = "extract" /\ form.done) =>
        LET e == form.event_data
            out == form.out
            cs == IF "formComponentValues" \in DOMAIN e THEN e.formComponentValues ELSE <<>>
            named == {i \in 1..Len(cs) : "name" \in DOMAIN cs[i]}
            extended == {i \in named : "extValue" \in DOMAIN cs[i]}
            last(S, n) == CHOOSE i \in S : /\ cs[i].name = n
                                           /\ \A j \in S : cs[j].name = n => j <= i
            names == {cs[i].name : i \in named}
            exts == {cs[i].name : i \in extended}
            from_components == names \cup {n \o "_ext" : n \in exts}
            flat == DOMAIN e \ {"process_code", "result", "instance_id", "task_id",
                                "formComponentValues"}
        IN /\ DOMAIN out = from_components \cup flat
           /\ \A n \in names : out[n] = dict_get(cs[last(named, n)], "value")
           /\ \A n \in exts : out[n \o "_ext"] = cs[last(extended, n)].extValue
           /\ \A k \in flat \ from_components : out[k] = e[k]

\* the event data has flat fields a, a_ext, result and title, and a component
\* a with a value and an extended value
C22_Witness ==
    /\ form.fn = "extract" /\ form.done
    /\ DOMAIN form.event_data = {"a", "a_ext", "result", "title", "formComponentValues"}
    /\ Len(form.event_data.formComponentValues) = 2
    /\ form.out = [a |-> "1", a_ext |-> "e", b |-> NoValue, title |-> "raw"]

\* C23: placeholder substitution returns a text without a {form_data:...}
\* token unchanged; a token before which no token starts is replaced by the
\* string of the value at its dotted path, and by the empty string when the
\* path is missing, holds None or passes through a value that is no
\* mapping; the text before the token is kept and the text after it is
\* substituted in the same way
C23_PlaceholdersAreSubstituted ==
    (form.fn = "replace" /\ form.done) =>
        LET text == form.text
            fd == form.form_data
            n == Len(text)
            a == <<"a">>
            b == <<"b">>
            Token(i, j) == /\ i + 3 <= j /\ j <= n
                           /\ text[i] = "{" /\ text[i + 1] = "F" /\ text[j] = "}"
                           /\ \A m \in (i + 2)..(j - 1) : text[m] # "}"
            Starts(i) == text[i] = "{" /\ text[i + 1] = "F" /\ text[i + 2] # "}"
            Expected(path) ==
                IF path = <<"a">> /\ a \in DOMAIN fd THEN str(fd[a])
                ELSE IF /\ path = <<"a", ".", "b">>
                        /\ a \in DOMAIN fd /\ fd[a].type = "dict"
                        /\ b \in DOMAIN fd[a].v /\ fd[a].v[b].type # "NoneType"
                THEN str(fd[a].v[b])
                ELSE <<>>
        IN /\ (\A i, j \in 1..n : ~Token(i, j)) => form.out = text
           /\ \A i, j \in 1..n :
                 (Token(i, j) /\ \A k \in 1..(i - 1) : ~Starts(k)) =>
                     form.out = SubSeq(text, 1, i - 1)
                                \o Expected(SubSeq(text, i + 2, j - 1))
                                \o _replace_placeholders(SubSeq(text, j + 1, n), fd)

\* {form_data:a.b}}{form_data:a.b} against {"a": {"b": "X"}} gives X}X
C23_Witness ==
    /\ form.fn = "replace" /\ form.done
    /\ form.text = <<"{", "F", "a", ".", "b", "}", "}", "{", "F", "a", ".", "b", "}">>
    /\ form.form_data = (<<"a">> :> Dict(<<"b">> :> Str(<<"X">>)))
    /\ form.out = <<"X", "}", "X">>

(***************************************************************************)
(* Claims about record actions                                             *)
(***************************************************************************)
\* C24: in every attempt, a record action with a find-by clause only finds
\* and updates and never inserts, and a record action without one only
\* inserts and never finds or updates
C24_FindByDecidesUpdateOrInsert ==
    \A t \in Tasks :
        InActions(tasks[t]) =>
            LET tk == tasks[t]
                K == 1..Len(tk.actions)
            IN /\ \A k \in K :
                    /\ tk.astate[k] \in {"find", "update"} =>
                           IsRecordAction(tk.actions[k]) /\ tk.actions[k].find_by
                    /\ tk.astate[k] = "insert" =>
                           IsRecordAction(tk.actions[k]) /\ ~tk.actions[k].find_by
               /\ "insert" \in tk.issued =>
                     \E k \in K : IsRecordAction(tk.actions[k]) /\ ~tk.actions[k].find_by
               /\ tk.issued \cap {"find", "update"} # {} =>
                     \E k \in K : IsRecordAction(tk.actions[k]) /\ tk.actions[k].find_by

\* a find-by action succeeded by an update in its third attempt and issued no
\* insert; an action without find-by is in its second attempt, an insert
C24_Witness ==
    /\ tasks[1].pc = "actions" /\ Len(tasks[1].actions) = 2
    /\ tasks[1].actions[1].find_by /\ tasks[1].result[1] = "ok"
    /\ tasks[1].attempts[1] = 3
    /\ ~tasks[1].actions[2].find_by /\ tasks[1].astate[2] = "insert"
    /\ tasks[1].attempts[2] = 2

\* C25: when the find of a record-update action finds no record, the action
\* is over: no further attempt is made and no retry sleep is taken.  (In
\* SpecLookup no call raises, so a find that is not followed by its update
\* found no record.)
C25_NoMatchIsTerminal ==
    [][\A t \in Tasks : \A k \in 1..MaxActions :
          (/\ InActions(tasks[t]) /\ k <= Len(tasks[t].actions)
           /\ tasks[t].astate[k] = "find"
           /\ tasks'[t].astate[k] # "update")
              => /\ tasks'[t].astate[k] = "done"
                 /\ tasks'[t].sleeps[k] = tasks[t].sleeps[k]]_vars

\* the failures of a record mutation: the request or the decoding raised, an
\* update response without the value envelope, an insert response with an
\* error code, with a status code >= 400 or with no created id
WriteFailed(r) ==
    \/ r.response.raised
    \/ r.call = "update" /\ r.response.value \in {"absent", "null"}
    \/ r.call = "insert" /\ \/ r.response.errcode \notin {"absent", "0"}
                            \/ r.response.status_code >= 400
                            \/ r.response.value \in {"absent", "null", "empty"}

TokenHeld ==
    /\ client.issued.token.value # NoValue
    /\ monotonic - client.issued.token.time < ttl

\* call c of _get_access_token begins in this step / its token request is
\* answered in this step
TokenBegins(c) == client.calls[c].pc = "idle" /\ client'.calls[c].fn = "token"

TokenAnswered(c) ==
    /\ client.calls[c].fn = "token"
    /\ client.calls[c].pc = "exchange"
    /\ client'.calls[c].pc # "exchange"

\* C27: _get_access_token returns the issued token without a request while
\* that token is unexpired; otherwise it sends exactly one token request,
\* and returns and stores the token of the answer; when the answer carries
\* no token the call raises and the cache is left as it was.
C27_TokenIsCachedUntilItExpires ==
    [][\A c \in Calls :
        /\ TokenBegins(c) =>
              IF TokenHeld
              THEN /\ client'.calls[c].pc = "returned"
                   /\ client'.calls[c].ret = client.issued.token.value
                   /\ client'.calls[c].exchanges = 0
              ELSE /\ client'.calls[c].pc = "exchange"
                   /\ client'.calls[c].exchanges = 1
        /\ TokenAnswered(c) =>
              /\ client'.calls[c].exchanges = 1
              /\ IF client'.calls[c].token_answer # "absent"
                 THEN /\ client'.calls[c].pc = "returned"
                      /\ client'.calls[c].ret = client'.calls[c].token_answer
                      /\ get(client'._access_token_cache, "access_token", monotonic).ret
                            = client'.calls[c].ret
                 ELSE /\ client'.calls[c].pc = "raised"
                      /\ client'._access_token_cache = client._access_token_cache]_vars

\* one call has stored the token of its answer and another one returned it
\* without a request before it expired
C27_Witness ==
    \E c, d \in Calls :
        /\ client.calls[c].fn = "token" /\ client.calls[c].pc = "returned"
        /\ client.calls[c].exchanges = 1
        /\ client.calls[d].fn = "token" /\ client.calls[d].pc = "returned"
        /\ client.calls[d].exchanges = 0
        /\ client.calls[d].ret = client.calls[c].ret

\* the remote service has issued a user's details for key less than ttl ago
UserHeld(key) ==
    /\ TruthyInfo(client.issued.users[key].value)
    /\ monotonic - client.issued.users[key].time < ttl

\* call c of get_user_info begins in this step
UserBegins(c) == client.calls[c].pc = "idle" /\ client'.calls[c].fn = "user"

\* a remote call of call c of get_user_info fails in this step: the token
\* request brings no token, or the user request raises or brings an errcode
UserFails(c) ==
    /\ client.calls[c].fn = "user"
    /\ \/ /\ client.calls[c].pc = "exchange" /\ client'.calls[c].pc # "exchange"
          /\ client'.calls[c].token_answer = "absent"
       \/ /\ client.calls[c].pc = "user_get" /\ client'.calls[c].pc # "user_get"
          /\ client'.calls[c].user_answer = "error"

\* get_user_info returns the details issued for the same key less than ttl
\* ago, without a request
UserHitIsLocal(c) ==
    (UserBegins(c) /\ UserHeld(client'.calls[c].key)) =>
        /\ client'.calls[c].pc = "returned"
        /\ client'.calls[c].ret = client.issued.users[client'.calls[c].key].value
        /\ client'.calls[c].exchanges = 0
        /\ client'.calls[c].lookups = 0

\* details held for another key only (the same id, another locale) are not
\* returned: the call goes to the remote service
UserMissIsRemote(c) ==
    (UserBegins(c) /\ ~UserHeld(client'.calls[c].key)) =>
        /\ client'.calls[c].pc \in {"exchange", "user_get"}
        /\ client'.calls[c].exchanges + client'.calls[c].lookups = 1

\* a failed lookup returns the empty dict and stores nothing
UserFailureIsEmpty(c) ==
    UserFails(c) =>
        /\ client'.calls[c].pc = "returned"
        /\ client'.calls[c].ret = "{}"
        /\ client'._user_info_cache = client._user_info_cache

\* C28: a lookup of a user whose details were issued for the same id and
\* locale less than ttl ago returns those details without a remote call; a
\* lookup with another locale goes to the remote service; a failed lookup
\* returns an empty result and caches nothing.
C28_UserLookupIsCached ==
    [][\A c \in Calls :
          UserHitIsLocal(c) /\ UserMissIsRemote(c) /\ UserFailureIsEmpty(c)]_vars

(***************************************************************************)
(* Claims about failed deliveries and child processes                      *)
(***************************************************************************)

\* C29: every item of the failed-delivery list fetched at startup and after
\* a successful reload is handed to the event handler.
C29_FailedDeliveriesAreReplayed ==
    client.failed.replayed = client.failed.fetched

C31_HooksAreNotRetried ==
    [][\A k \in 1..MaxActions :
          (/\ InActions(tasks[1]) /\ k <= Len(tasks[1].actions)
           /\ tasks[1].actions[k].type \in {"webhook", "shell", "python"})
              => /\ tasks'[1].dispatched[k] <= 1
                 /\ tasks'[1].sleeps[k] = 0 /\ tasks'[1].attempts[k] = 0
                 /\ tasks[1].astate[k] = "done" => tasks'[1].astate[k] = "done"
                 /\ (tasks[1].astate[k] \in {"http", "shell", "script"}
                        /\ tasks'[1] # tasks[1])
                       => tasks'[1].astate[k] = "done"]_vars

\* with a retry policy of two retries, a webhook that came back with an error
\* status and a shell command that timed out have each run once
C31_Witness ==
    /\ tasks[1].pc = "done" /\ Len(tasks[1].actions) = 2
    /\ handler_config.execution.retry_times = 2
    /\ tasks[1].actions[1].type = "webhook" /\ tasks[1].result[1] = "status"
    /\ tasks[1].actions[2].type = "shell" /\ tasks[1].result[2] = "timeout"
    /\ tasks[1].dispatched = <<1, 1>>

(***************************************************************************)
(* Further claims about the watcher and the dedup gate                     *)
(***************************************************************************)

\* C32: when stop() has been called while a reload task is inside the
\* callback and the pending flag is set, no invocation of the reload callback
\* begins: the cancelled task does not run the callback again.
C32_NoCallbackAfterStop ==
    [][(/\ StopCalled /\ watcher._reload_pending
        /\ \E i \in ReloadTasks : watcher.reload_tasks[i].status = "callback")
          => hist.callback_starts' = hist.callback_starts]_vars

\* invocations t and u have passed the dedup gate with the same event key
BothPassed(t, u) ==
    /\ tasks[t].gate = "fresh" /\ tasks[u].gate = "fresh"
    /\ tasks[t].key = tasks[u].key

\* C33: of the process() invocations that carry the same event key and were
\* delivered within one dedup window, however they interleave, at most one
\* passes the dedup gate.  (While now < EVENT_DEDUP_TTL every delivery so far
\* lies within one window.)
C33_OnePassesTheGate ==
    now < EVENT_DEDUP_TTL =>
        \A t, u \in Tasks : t # u => ~BothPassed(t, u)

\* the second invocation was dropped at the gate while the first, with the
\* same key, is still awaiting its enrichment call
C33_Witness ==
    /\ now < EVENT_DEDUP_TTL
    /\ tasks[1].gate = "fresh" /\ tasks[1].pc \in {"detail", "userinfo"}
    /\ tasks[2].gate = "duplicate" /\ tasks[2].key = tasks[1].key
    /\ tasks[2].pc = "done" /\ tasks[2].issued = {}

\* invocation t returns STATUS_SYSTEM_EXCEPTION in this step, having passed
\* the dedup gate
EndsInSystemException(t) ==
    /\ tasks[t].pc # "done" /\ tasks'[t].pc = "done"
    /\ tasks'[t].ack = STATUS_SYSTEM_EXCEPTION
    /\ tasks'[t].gate = "fresh"

\* C34: when the processing of an event ends with STATUS_SYSTEM_EXCEPTION the
\* event key is not left in the dedup set: a redelivery is not a duplicate.
C34_FailedEventCanBeRedelivered ==
    [][\A t \in Tasks :
          EndsInSystemException(t)
              => ~_is_event_processed(processed_events', tasks'[t].key, now')]_vars

\* how many entries the dict counts in pe at timestamp ts among the keys the
\* model does not follow
BulkAt(pe, ts) == IF ts \in DOMAIN pe.bulk THEN pe.bulk[ts] ELSE 0

\* len(self._processed_events) at line 72-73 of this step, after the
\* assignment and before the sweep: the entries of before and the keys the
\* step inserts (a key marked again replaces its entry)
MarkedLen ==
    DictLen(processed_events)
        + Cardinality(DOMAIN processed_events'.tracked \ DOMAIN processed_events.tracked)
        + (BulkAt(processed_events', now') - BulkAt(processed_events, now'))

\* no entry of pe is older than the window at t
NoExpiredLeft(pe, t) ==
    /\ \A k \in DOMAIN pe.tracked : ~(t - pe.tracked[k] > EVENT_DEDUP_TTL)
    /\ \A ts \in DOMAIN pe.bulk : ~(t - ts > EVENT_DEDUP_TTL)

\* every entry that was inside its window before the step is there after it,
\* with its timestamp
WindowKept ==
    /\ \A k \in DOMAIN processed_events.tracked :
          _is_event_processed(processed_events, k, now)
              => /\ k \in DOMAIN processed_events'.tracked
                 /\ processed_events'.tracked[k] = processed_events.tracked[k]
    /\ \A ts \in DOMAIN processed_events.bulk :
          now - ts < EVENT_DEDUP_TTL
              => BulkAt(processed_events', ts) >= processed_events.bulk[ts]

\* C35: when _mark_event_processed leaves the dict with more than
\* SWEEP_THRESHOLD entries, the sweep removes exactly the expired ones: after
\* it no entry older than EVENT_DEDUP_TTL remains, and no entry that
\* _is_event_processed still reports as a duplicate has been removed.
C35_SweepRemovesTheExpired ==
    [][(processed_events' # processed_events /\ MarkedLen > SWEEP_THRESHOLD)
          => (NoExpiredLeft(processed_events', now') /\ WindowKept)]_vars

\* a sweep has run that removed the expired entry of one key and kept the
\* entry, marked earlier than the sweep, of another
C35_Witness ==
    /\ budget.bursts = 0
    /\ BulkAt(processed_events, now) = BurstSize
    /\ \E k \in DOMAIN last_mark :
          /\ k \notin DOMAIN processed_events.tracked
          /\ now - last_mark[k] > EVENT_DEDUP_TTL
    /\ \E k \in DOMAIN processed_events.tracked :
          /\ processed_events.tracked[k] < now
          /\ _is_event_processed(processed_events, k, now)

\* C36: the dedup set is bounded: after _mark_event_processed has returned the
\* dict never holds more than SWEEP_THRESHOLD + 1 entries, however many
\* distinct events are delivered.
C36_DedupSetIsBounded ==
    DictLen(processed_events) <= SWEEP_THRESHOLD + 1

\* invocation t is turned away at the dedup gate in this step
DroppedAsDuplicate(t) ==
    /\ tasks[t].pc = "idle"
    /\ tasks'[t].gate = "duplicate"

\* C37: the timestamp the dedup set holds for an identity is the time of the
\* delivery that passed the gate: a duplicate inside the window leaves it as
\* it was, so that an identity that passed the gate at time t is fresh again
\* at every time from t + EVENT_DEDUP_TTL on.
C37_DuplicatesDoNotRefresh ==
    [][/\ \A t \in Tasks :
             DroppedAsDuplicate(t)
                 => processed_events'.tracked[tasks'[t].key] = last_mark[tasks'[t].key]
       /\ \A k \in DOMAIN last_mark' :
             now' - last_mark'[k] >= EVENT_DEDUP_TTL
                 => ~_is_event_processed(processed_events', k, now')]_vars

\* an identity that passed the gate EVENT_DEDUP_TTL ago and of which a
\* duplicate was dropped since is fresh again
C37_Witness ==
    \E t \in Tasks :
        /\ tasks[t].gate = "duplicate"
        /\ now - last_mark[tasks[t].key] = EVENT_DEDUP_TTL
        /\ ~_is_event_processed(processed_events, tasks[t].key, now)

(***************************************************************************)
(* The form of an approval event under every outcome of the detail request *)
(***************************************************************************)
\* the detail of an instance: its form components and a flat field
Details ==
    {[formComponentValues |-> cs, title |-> "detail"] :
        cs \in {c \in ComponentLists : Len(c) = 1}}

\* what the service answers when it refuses the request
ErrorResponse == [code |-> "Forbidden", message |-> "denied", requestid |-> "r1"]

DetailResponses ==
    {Raises("token_raise"), Raises("request_raise"), Json(ErrorResponse)}
    \cup {Json([success |-> "true", result |-> d]) : d \in Details}

DetailCalls ==
    {[Call("detail", e, EmptyFn, <<>>, EmptyFn) EXCEPT !.response = r] :
        e \in {d \in ApprovalEventData :
                  "formComponentValues" \in DOMAIN d => Len(d.formComponentValues) <= 1},
        r \in DetailResponses}

InitDetail == InitState({HandlerConfig(<<>>, 0)}, {}, 0, 0, DetailCalls)

NextDetail == FetchDetail

SpecDetail == InitDetail /\ [][NextDetail]_vars

\* the detail was not fetched: an exception, or a response without a true
\* "success"
FetchFailed(response) ==
    response.kind # "json" \/ ~Truthy(dict_get(response.data, "success"))

\* C38: when fetching the detail of the instance fails, by an exception or by
\* a response that is not a success, the form is built from the event data
\* alone: no field of the error response is merged into it.
C38_FailedDetailLeavesEventData ==
    (form.fn = "detail" /\ form.done /\ FetchFailed(form.response))
        => form.out = extract_form_data(form.event_data)

(***************************************************************************)
(* A personnel event under every outcome of the user lookup                *)
(***************************************************************************)
\* personnel events of the enabled rule
PersonnelEvents == {e \in HrmEvents : e.staffId = "s1" /\ e.changeType = "4"}

\* the form of a personnel event when the lookup gave nothing and when it
\* gave a user
PersonnelCalls ==
    {Call("hrm", e, u, <<>>, EmptyFn) :
        e \in {d \in HrmEventData : DOMAIN d \cap {"deptId", "deptName"} = {}},
        u \in {EmptyFn, [name |-> "Jane"]}}

InitPersonnel ==
    InitState({HandlerConfig(as, 0) : as \in {l \in ActionLists : Len(l) = MaxActions}},
              PersonnelEvents, 0, 0, PersonnelCalls)

NextPersonnel ==
    \/ \E e \in PersonnelEvents : Deliver(1, e)
    \/ \E out \in {"found", "empty", "raise"} : UserInfoReturn(1, out)
    \/ \E k \in 1..MaxActions, out \in {"ok", "fail", "raise"} : CallReturn(1, k, out)
    \/ BuildHrmForm

SpecPersonnel == InitPersonnel /\ [][NextPersonnel]_vars

\* the user lookup of invocation t failed: it raised or returned nothing
LookupFailed(t) ==
    /\ tasks[t].event.event_type = "hrm_mdm_user_change"
    /\ tasks[t].enrich \in {"empty", "raise"}

\* the form holds staffId, changeType, changeTypeName and the fields of the
\* event as they came, and nothing else
EventFieldsOnly(form_data, event_data) ==
    /\ DOMAIN form_data = DOMAIN event_data \cup {"changeTypeName"}
    /\ \A k \in DOMAIN event_data : form_data[k] = event_data[k]
    /\ form_data.changeTypeName =
          dict_get(HRM_CHANGE_TYPE_MAP @@ (event_data.changeType :> event_data.changeType),
                   event_data.changeType)

\* C39: a failed user lookup (an exception or an empty result) does not stop
\* the processing of a personnel event of an enabled rule: every action of
\* the rule is dispatched, on a form that holds staffId, changeType,
\* changeTypeName and the raw fields of the event, and process returns
\* STATUS_OK.
C39_FailedLookupStillDispatches ==
    /\ \A t \in Tasks : LookupFailed(t) =>
          /\ tasks[t].pc \in {"actions", "done"}
          /\ tasks[t].pc = "done" =>
                /\ tasks[t].ack = STATUS_OK
                /\ \A k \in 1..Len(tasks[t].actions) : tasks[t].dispatched[k] = 1
    /\ (form.fn = "hrm" /\ form.done /\ DOMAIN form.user_info = {})
          => EventFieldsOnly(form.out, form.event_data)

\* the lookup raised, both actions of the rule were dispatched and process
\* returned STATUS_OK; the form kept the raw "name" of the event
C39_Witness ==
    /\ tasks[1].pc = "done" /\ tasks[1].enrich = "raise"
    /\ tasks[1].event.event_type = "hrm_mdm_user_change"
    /\ tasks[1].dispatched = <<1, 1>> /\ tasks[1].ack = STATUS_OK
    /\ form.fn = "hrm" /\ form.done /\ DOMAIN form.user_info = {}
    /\ "name" \in DOMAIN form.event_data /\ form.out.name = "Raw"

(***************************************************************************)
(* Actions as the configuration file spells them                           *)
(***************************************************************************)
\* class Action (config.py:48-54) declares type, base_id, sheet_id, find_by
\* and updates; Action(**data) keeps the declared keys of data, a missing one
\* at its default, and drops every other key (base_id and sheet_id are not
\* followed by the model)
ActionModel(data) ==
    Action(data.type,
           IF "find_by" \in DOMAIN data THEN data.find_by ELSE FALSE,
           IF "updates" \in DOMAIN data THEN data.updates ELSE FALSE)

\* the mappings of the actions of a configuration file
ConfiguredActions ==
    {[type |-> "webhook", url |-> "http://hook"],
     [type |-> "shell", command |-> "echo"],
     [type |-> "python", script |-> "job.py"],
     [type |-> "update_spreadsheet", updates |-> TRUE]}

ConfiguredLists == UNION {[1..n -> ConfiguredActions] : n \in 1..MaxActions}

\* the handler under the configuration load_config builds from such a file
InitConfigured ==
    InitHandler({HandlerConfig([k \in DOMAIN l |-> ActionModel(l[k])], n) :
                    l \in ConfiguredLists, n \in 0..MaxRetryTimes},
                {e \in Events : /\ e.search_value = NoValue
                                /\ \/ /\ e.result = "agree" /\ e.processCode = "P1"
                                      /\ e.processInstanceId = "i1"
                                   \/ e.staffId = "s1" /\ e.changeType = "4"}, 0, 0)

NextConfigured ==
    \/ \E e \in Events : Deliver(1, e)
    \/ DetailReturn(1, "detail")
    \/ UserInfoReturn(1, "found")
    \/ \E k \in 1..MaxActions, out \in {"ok", "fail", "raise"} : CallReturn(1, k, out)
    \/ \E k \in 1..MaxActions : SleepDone(1, k)

SpecConfigured == InitConfigured /\ [][NextConfigured]_vars

\* C40: the fields of an action that belong to its type reach the dispatcher:
\* a webhook action configured with a url still has it as an Action object,
\* and its dispatch makes an HTTP request.  (Every webhook of ConfiguredLists
\* is configured with a url.)
C40_WebhookUrlReachesDispatch ==
    \A t \in Tasks : \A k \in DOMAIN tasks[t].astate :
        (tasks[t].actions[k].type = "webhook" /\ tasks[t].astate[k] = "done")
            => /\ HasAttr(tasks[t].actions[k], "url")
               /\ "http" \in tasks[t].issued

====
